---- MODULE Spec2Model ----
(***************************************************************************)
(* State-machine model of the device-control agent:                        *)
(*   custom_agent.py         DeviceController / MockDeviceController /     *)
(*                           TaskExecutor / CustomAgent                    *)
(*   device_registration.py  DeviceRegistration / GBOXDeviceManager        *)
(* The program is single-threaded: every method call is one atomic action. *)
(* The wall clock, the bound device controller and the adb bridge are the  *)
(* environment.  Every time.time() call is an input of the action that     *)
(* makes it: the wall clock is not monotonic (the system clock may be set  *)
(* back between two readings), so a reading is any value of ClockValues.   *)
(***************************************************************************)
EXTENDS Integers, Sequences, FiniteSets, TLC

VARIABLES
    ctor_arg,           \* the device_controller argument the agent was constructed with
    device_controller,  \* CustomAgent.device_controller: NoAgent, "mock" or "custom"
    agent_id,           \* CustomAgent.agent_id
    task_history,       \* TaskExecutor.task_history
    n_calls,            \* number of execute_task calls made on the current executor
    ret,                \* what the last call returned to its caller
    last_run,           \* what the last call met: the controller calls its handler issued,
                        \* the exception the handler raised, the boolean it returned, and
                        \* the readings time.time() gave the call
    adb,                \* the adb bridge: what its next invocations answer
    registered_devices, \* DeviceRegistration.registered_devices
    last_session,       \* per device id, the session id its last successful registration returned
    reg_ret,            \* what the last registry call returned to its caller
    reg_trace,          \* the registry methods entered by the last manager call
    getprop,            \* the device shell: what its next property and size queries answer
    remote,             \* the controller object the caller holds: NoRemote, or its class and fields
    remote_ret,         \* what the last controller construction or method call gave its caller
    integ,              \* the AndroidWorldIntegration object: its fields
    integ_ret           \* what the last integration call gave its caller and did on its way

agent_vars == <<ctor_arg, device_controller, agent_id, task_history, n_calls, ret, last_run>>
reg_vars == <<adb, registered_devices, last_session, reg_ret, reg_trace>>
integ_vars == <<integ, integ_ret>>
ext_vars == <<getprop, remote, remote_ret, integ, integ_ret>>
vars == <<ctor_arg, device_controller, agent_id, task_history, n_calls, ret, last_run,
          adb, registered_devices, last_session, reg_ret, reg_trace, getprop,
          remote, remote_ret, integ, integ_ret>>

----------------------------------------------------------------------------
(* Bounds of the model *)

\* clock readings are 0..MaxTime ticks
MaxTime == 1
\* ticks per wall-clock second: int(time.time()) drops the sub-second part
TicksPerSecond == 2
\* execute_task is not called once the history holds this many entries
MaxHistory == 2
\* the bridge lists at most this many rows after its header
MaxRows == 3
\* the same, in the specification of the registrations
MaxRegRows == 1
\* clock readings of the registry calls are 0..MaxRegTime ticks
MaxRegTime == 2
\* execute_task is called directly at most this many times on one executor
MaxTraced == 2
\* the longest task_names list and the largest max_tasks
MaxNames == 3
MaxBatch == 2

----------------------------------------------------------------------------
(* Values *)

\* Python's None, and a present optional value
None == <<>>
Some(v) == <<v>>

ClockValues == 0..MaxTime

\* int(time.time())
IntTime(t) == t \div TicksPerSecond

\* no CustomAgent has been constructed yet
NoAgent == "no_agent"

\* the last call ran no task handler
NoRun == [calls |-> <<>>, exc |-> None, value |-> None, readings |-> <<>>]

TaskNames == {"RecipeAddMultipleRecipes", "SimpleCalendarAddOneEvent", "FooBarTask"}

\* str(e) of the exceptions a controller call may raise
ErrMsgs == {"device error"}

\* what one controller call does: return True, return False, raise Exception
MockOutcomes == {"true"}
AnyOutcomes == {"true", "false", "raise"}

ControllerOutcomes(ctl) == IF ctl = "mock" THEN MockOutcomes ELSE AnyOutcomes

Click(x, y) == [op |-> "click", x |-> x, y |-> y, text |-> ""]
TypeText(t) == [op |-> "type_text", x |-> 0, y |-> 0, text |-> t]

----------------------------------------------------------------------------
(* TaskExecutor *)

\* _execute_recipe_task: the scripted controller calls
RecipeScript == <<Click(500, 1200), TypeText("Test Recipe"), Click(500, 1400)>>

\* _execute_calendar_task: the scripted controller calls
CalendarScript == <<Click(500, 1200), TypeText("Test Event"), Click(500, 1400)>>

\* _execute_generic_task: no controller call
GenericScript == <<>>

\* the dispatch with the recipe handler as the else branch
Dispatch_ElseRecipe(task_name) ==
    IF task_name = "SimpleCalendarAddOneEvent" THEN CalendarScript ELSE RecipeScript

\* the if/elif/else dispatch of execute_task
Dispatch(task_name) ==
    IF task_name = "RecipeAddMultipleRecipes" THEN RecipeScript
    ELSE IF task_name = "SimpleCalendarAddOneEvent" THEN CalendarScript
    ELSE GenericScript

\* index of the first call of the script that raises, 0 when none does
FirstRaise(script, outcomes) ==
    IF \E i \in 1..Len(script) : outcomes[i] = "raise"
    THEN CHOOSE i \in 1..Len(script) :
            /\ outcomes[i] = "raise"
            /\ \A j \in 1..(i - 1) : outcomes[j] # "raise"
    ELSE 0

\* a handler that repeats its first call when the controller returned False to it
RunHandler_RetryOnFalse(script, outcomes, msg) ==
    LET k == FirstRaise(script, outcomes) IN
    IF k = 0
    THEN [calls |-> IF script # <<>> /\ outcomes[1] = "false"
                    THEN <<script[1]>> \o script ELSE script,
          exc |-> None, value |-> Some(TRUE)]
    ELSE [calls |-> SubSeq(script, 1, k), exc |-> Some(msg), value |-> None]

\* a handler that gives up at the first call the controller returned False to,
\* and returns False
RunHandler_StopOnFalse(script, outcomes, msg) ==
    LET k == FirstRaise(script, outcomes)
        f == IF \E i \in 1..Len(script) : outcomes[i] = "false"
             THEN CHOOSE i \in 1..Len(script) :
                     /\ outcomes[i] = "false"
                     /\ \A j \in 1..(i - 1) : outcomes[j] # "false"
             ELSE 0
    IN  IF f # 0 /\ (k = 0 \/ f < k)
        THEN [calls |-> SubSeq(script, 1, f), exc |-> None, value |-> Some(FALSE)]
        ELSE IF k = 0
        THEN [calls |-> script, exc |-> None, value |-> Some(TRUE)]
        ELSE [calls |-> SubSeq(script, 1, k), exc |-> Some(msg), value |-> None]

\* a handler run against the controller: the calls it issued, the exception a
\* call raised (which ends the handler), and the boolean the handler returned
\* (every handler returns True, whatever the calls returned)
RunHandler(script, outcomes, msg) ==
    LET k == FirstRaise(script, outcomes) IN
    IF k = 0
    THEN [calls |-> script, exc |-> None, value |-> Some(TRUE)]
    ELSE [calls |-> SubSeq(script, 1, k), exc |-> Some(msg), value |-> None]

\* execute_task with the append moved into the try block: a raising handler
\* leaves no entry
execute_task_NoAppendOnError(history, task_name, outcomes, msg, start_time, end_time) ==
    LET h == RunHandler(Dispatch(task_name), outcomes, msg)
        result == [task_name |-> task_name,
                   success |-> IF h.exc = None THEN h.value[1] ELSE FALSE,
                   execution_time |-> end_time - start_time,
                   error_message |-> IF h.exc = None THEN None ELSE Some(h.exc[1]),
                   timestamp |-> start_time]
    IN [history |-> IF h.exc = None THEN Append(history, result) ELSE history,
        result |-> result,
        handler |-> h,
        propagated |-> FALSE]

\* execute_task with success initialised to True before the try block: a raising
\* handler leaves success = True
execute_task_SuccessDefaultTrue(history, task_name, outcomes, msg, start_time, end_time) ==
    LET h == RunHandler(Dispatch(task_name), outcomes, msg)
        result == [task_name |-> task_name,
                   success |-> IF h.exc = None THEN h.value[1] ELSE TRUE,
                   execution_time |-> end_time - start_time,
                   error_message |-> IF h.exc = None THEN None ELSE Some(h.exc[1]),
                   timestamp |-> start_time]
    IN [history |-> Append(history, result),
        result |-> result,
        handler |-> h,
        propagated |-> FALSE]

\* execute_task that puts the result in front of the history
execute_task_Prepend(history, task_name, outcomes, msg, start_time, end_time) ==
    LET h == RunHandler(Dispatch(task_name), outcomes, msg)
        result == [task_name |-> task_name,
                   success |-> IF h.exc = None THEN h.value[1] ELSE FALSE,
                   execution_time |-> end_time - start_time,
                   error_message |-> IF h.exc = None THEN None ELSE Some(h.exc[1]),
                   timestamp |-> start_time]
    IN [history |-> <<result>> \o history,
        result |-> result,
        handler |-> h,
        propagated |-> FALSE]

\* execute_task that stores an empty message, not None, when the handler returned
execute_task_EmptyMessageOnSuccess(history, task_name, outcomes, msg, start_time, end_time) ==
    LET h == RunHandler(Dispatch(task_name), outcomes, msg)
        success == IF h.exc = None THEN h.value[1] ELSE FALSE
        error_message == IF h.exc = None THEN Some("") ELSE Some(h.exc[1])
        result == [task_name |-> task_name,
                   success |-> success,
                   execution_time |-> end_time - start_time,
                   error_message |-> error_message,
                   timestamp |-> start_time]
    IN [history |-> Append(history, result),
        result |-> result,
        handler |-> h,
        propagated |-> FALSE]

\* execute_task(task_name, task_params) on a history, with the controller's
\* outcomes, the message of the exception a call may raise, and the two clock
\* readings: the new history, the returned result, and what the handler did
execute_task(history, task_name, outcomes, msg, start_time, end_time) ==
    LET h == RunHandler(Dispatch(task_name), outcomes, msg)
        \* success = False, error_message = None before the try block
        success == IF h.exc = None THEN h.value[1] ELSE FALSE
        error_message == IF h.exc = None THEN None ELSE Some(h.exc[1])
        result == [task_name |-> task_name,
                   success |-> success,
                   execution_time |-> end_time - start_time,
                   error_message |-> error_message,
                   timestamp |-> start_time]
    IN [history |-> Append(history, result),
        result |-> result,
        handler |-> h,
        propagated |-> FALSE]

OutcomeScripts(ctl) == [1..3 -> ControllerOutcomes(ctl)]

----------------------------------------------------------------------------
(* CustomAgent *)

\* the constructor that keeps the argument as it is, None included
InitController_NoDefault(arg) == IF arg = None THEN "custom" ELSE arg[1]

\* CustomAgent.__init__(device_controller): None (or nothing) gives the Mock backend
InitController(arg) == IF arg = None THEN "mock" ELSE arg[1]

\* f"custom_agent_{int(time.time())}"
MakeAgentId(t) == <<"custom_agent", IntTime(t)>>

NewAgent(arg, t) ==
    /\ ctor_arg' = arg
    /\ device_controller' = InitController(arg)
    /\ agent_id' = MakeAgentId(t)
    /\ task_history' = <<>>
    /\ n_calls' = 0
    /\ ret' = [op |-> "init", arg |-> None, raised |-> FALSE, value |-> None]
    /\ last_run' = NoRun
    /\ UNCHANGED reg_vars
    /\ UNCHANGED ext_vars

\* CustomAgent.run_task: delegates to TaskExecutor.execute_task (its only caller in
\* the repository), logs the outcome and returns execute_task's result
run_task(task_name, outcomes, msg, start_time, end_time) ==
    LET r == execute_task(task_history, task_name, outcomes, msg, start_time, end_time) IN
        /\ task_history' = r.history
        /\ ret' = [op |-> "run_task", arg |-> Some(task_name), raised |-> r.propagated,
                   value |-> IF r.propagated THEN None ELSE Some(r.result)]
        /\ last_run' = [calls |-> r.handler.calls, exc |-> r.handler.exc,
                        value |-> r.handler.value, readings |-> <<start_time, end_time>>]
        /\ n_calls' = n_calls + 1
        /\ UNCHANGED <<ctor_arg, device_controller, agent_id>>
        /\ UNCHANGED reg_vars
        /\ UNCHANGED ext_vars

\* the environment's choices for one run_task call on the bound controller:
\* the task, what each controller call does, and the two readings of the clock
\* (any readings: the wall clock may be set back between two of them)
ExecInputs ==
    {i \in [task : TaskNames, outcomes : OutcomeScripts(device_controller),
            msg : ErrMsgs, start_time : ClockValues, end_time : ClockValues] :
        \* the outcomes matter only as far as the handler's script goes
        \A k \in (Len(Dispatch(i.task)) + 1)..3 : i.outcomes[k] = "true"}

RunTask ==
    /\ device_controller # NoAgent
    /\ Len(task_history) < MaxHistory
    /\ \E i \in ExecInputs : run_task(i.task, i.outcomes, i.msg, i.start_time, i.end_time)

\* the clock readings of a call during which the clock advances
TracedInputs == {i \in ExecInputs : i.start_time = 0 /\ i.end_time = MaxTime}

\* TaskExecutor.execute_task called on the agent's executor directly, with what
\* the controller answers to the first, second and third call kept in last_run
ExecuteTask ==
    /\ device_controller # NoAgent
    /\ n_calls < MaxTraced
    /\ \E i \in TracedInputs :
        LET r == execute_task(task_history, i.task, i.outcomes, i.msg,
                              i.start_time, i.end_time) IN
        /\ task_history' = r.history
        /\ ret' = [op |-> "execute_task", arg |-> Some(i.task), raised |-> r.propagated,
                   value |-> IF r.propagated THEN None ELSE Some(r.result)]
        /\ last_run' = [calls |-> r.handler.calls, exc |-> r.handler.exc,
                        value |-> r.handler.value,
                        readings |-> <<i.start_time, i.end_time>>,
                        answers |-> i.outcomes]
    /\ n_calls' = n_calls + 1
    /\ UNCHANGED <<ctor_arg, device_controller, agent_id>>
    /\ UNCHANGED reg_vars
    /\ UNCHANGED ext_vars

\* a get_status that reports an agent without history as idle
get_status_IdleWhenEmpty(id, history, t) ==
    [agent_id |-> id,
     status |-> IF history = <<>> THEN "idle" ELSE "active",
     tasks_executed |-> Len(history),
     device_connected |-> TRUE,
     timestamp |-> t]

\* CustomAgent.get_status
get_status(id, history, t) ==
    [agent_id |-> id,
     status |-> "active",
     tasks_executed |-> Len(history),
     device_connected |-> TRUE,
     timestamp |-> t]

GetStatus(t) ==
    /\ device_controller # NoAgent
    /\ ret' = [op |-> "get_status", arg |-> None, raised |-> FALSE,
               value |-> Some(get_status(agent_id, task_history, t))]
    /\ last_run' = NoRun
    /\ UNCHANGED <<ctor_arg, device_controller, agent_id, task_history, n_calls>>
    /\ UNCHANGED reg_vars
    /\ UNCHANGED ext_vars

\* CustomAgent.get_task_history: hands out the executor's list
GetTaskHistory ==
    /\ device_controller # NoAgent
    /\ ret' = [op |-> "get_task_history", arg |-> None, raised |-> FALSE,
               value |-> Some(task_history)]
    /\ last_run' = NoRun
    /\ UNCHANGED <<ctor_arg, device_controller, agent_id, task_history, n_calls>>
    /\ UNCHANGED reg_vars
    /\ UNCHANGED ext_vars

----------------------------------------------------------------------------
(* The adb bridge.  A string the code takes apart is a sequence of tokens: a   *)
(* device id is <<"emulator", "-", "5554">>, a line of stdout is the sequence   *)
(* of its tab-separated fields, stdout is the sequence of its lines.           *)

EMU == <<"emulator", "-", "5554">>
PHY == <<"R58M">>
DeviceIds == {EMU, PHY}

DEVICE == <<"device">>
OFFLINE == <<"offline">>
EmptyField == <<>>
HeaderLine == <<<<"List of devices attached">>>>
\* the stdout of a bridge that lists no device
HeaderOnly == <<HeaderLine>>
BlankLine == <<EmptyField>>

\* the lines the bridge may print after its header: id<TAB>status rows, a blank
\* line, a line without a tab, and a row with a second tab
RowLines ==
    {<<id, st>> : id \in DeviceIds, st \in {DEVICE, OFFLINE}}
        \cup {BlankLine, <<EMU>>, <<EMU, DEVICE, EmptyField>>, <<PHY, OFFLINE, <<"usb">>>>}

RECURSIVE SeqsUpTo(_, _)
SeqsUpTo(S, n) ==
    IF n = 0 THEN {<<>>}
    ELSE LET shorter == SeqsUpTo(S, n - 1) IN
         shorter \cup {Append(q, x) : q \in {r \in shorter : Len(r) = n - 1}, x \in S}

\* what one `adb devices` invocation does: subprocess.run raises (the process
\* cannot be started, or the 10 s timeout expires), or it completes with a
\* return code and a stdout
BridgeAnswers(maxRows) ==
    {[status |-> "raise", returncode |-> 0, stdout |-> HeaderOnly]}
        \cup {[status |-> "exit", returncode |-> rc, stdout |-> HeaderOnly \o rows] :
                rc \in {0, 1}, rows \in SeqsUpTo(RowLines, maxRows)}

\* the answers the bridge gives while devices are registered: it fails, or it
\* lists id<TAB>status rows about the two devices
RegRowLines == {<<EMU, DEVICE>>, <<EMU, OFFLINE>>, <<PHY, DEVICE>>}
RegBridgeAnswers ==
    {[status |-> "raise", returncode |-> 0, stdout |-> HeaderOnly],
     [status |-> "exit", returncode |-> 1, stdout |-> HeaderOnly]}
        \cup {[status |-> "exit", returncode |-> 0, stdout |-> HeaderOnly \o rows] :
                rows \in SeqsUpTo(RegRowLines, MaxRegRows)}

\* what one `adb shell getprop ro.product.model` invocation does: it raises, it
\* exits non-zero, it prints a model holding 'sdk' or 'emulator', or another model
ModelAnswers == {"raise", "nonzero", "sdk", "phone"}

\* str.strip() of the whole stdout: the separators (tabs, newlines) before the
\* first non-empty field and after the last one go
RECURSIVE RStrip(_)
RStrip(text) ==
    IF text = <<>> THEN <<>>
    ELSE LET n == Len(text)
             last == text[n] IN
         IF last[Len(last)] # EmptyField THEN text
         ELSE IF Len(last) = 1 THEN RStrip(SubSeq(text, 1, n - 1))
         ELSE RStrip([text EXCEPT ![n] = SubSeq(last, 1, Len(last) - 1)])

RECURSIVE LStrip(_)
LStrip(text) ==
    IF text = <<>> THEN <<>>
    ELSE LET first == text[1] IN
         IF first[1] # EmptyField THEN text
         ELSE IF Len(first) = 1 THEN LStrip(Tail(text))
         ELSE LStrip([text EXCEPT ![1] = Tail(first)])

Strip(text) ==
    LET stripped == LStrip(RStrip(text)) IN
    IF stripped = <<>> THEN <<BlankLine>> ELSE stripped

\* device_id.startswith('emulator-')
StartsWithEmulator(id) == Len(id) >= 2 /\ id[1] = "emulator" /\ id[2] = "-"

\* _get_device_type: the id prefix, else the model property
get_device_type(id, model) ==
    IF StartsWithEmulator(id) THEN "emulator"
    ELSE IF model = "raise" THEN "unknown"
    ELSE IF model = "nonzero" THEN "unknown"
    ELSE IF model = "sdk" THEN "emulator"
    ELSE "physical"

\* the model strings a device may print, as sequences of pieces of text
PrintedModels ==
    {<<"sdk", "_gphone64_x86_64">>, <<"Android ", "SDK", " built for x86">>,
     <<"Emulator">>, <<"Pixel 6">>, <<>>}

\* what one `adb -s <id> shell getprop ro.product.model` invocation does, in
\* full: subprocess.run raises, or it completes with a return code and a stdout
ModelQueryAnswers ==
    {[status |-> "raise", returncode |-> 0, stdout |-> <<>>],
     [status |-> "exit", returncode |-> 1, stdout |-> <<"Pixel 6">>]}
        \cup {[status |-> "exit", returncode |-> 0, stdout |-> m] : m \in PrintedModels}

\* str.lower() of a piece of text
Lower(piece) ==
    CASE piece = "SDK" -> "sdk"
      [] piece = "Emulator" -> "emulator"
      [] piece = "Android " -> "android "
      [] piece = "Pixel 6" -> "pixel 6"
      [] OTHER -> piece

\* InLower without the lower(): `word in model`
InLower_CaseSensitive(word, model) == \E k \in 1..Len(model) : model[k] = word

\* `word in model.lower()`
InLower(word, model) == \E k \in 1..Len(model) : Lower(model[k]) = word

\* what lines 74-81 make of an answer of the model query
ModelAnswerOf(a) ==
    IF a.status = "raise" THEN "raise"
    ELSE IF a.returncode # 0 THEN "nonzero"
    ELSE IF InLower("sdk", a.stdout) \/ InLower("emulator", a.stdout) THEN "sdk"
    ELSE "phone"

\* _get_device_type called by itself: the kind, and whether the model was asked for
GetDeviceType(id) ==
    /\ \E a \in ModelQueryAnswers :
        \* an id starting with 'emulator-' returns before the query
        /\ StartsWithEmulator(id) => a.status = "raise"
        /\ reg_ret' = [op |-> "get_device_type", arg |-> <<id, a>>, raised |-> FALSE,
                       value |-> get_device_type(id, ModelAnswerOf(a))]
    /\ reg_trace' = IF StartsWithEmulator(id) THEN <<>> ELSE <<"getprop ro.product.model">>
    /\ UNCHANGED <<adb, registered_devices, last_session>>
    /\ UNCHANGED agent_vars
    /\ UNCHANGED ext_vars

\* `if line.strip() and '\t' in line`
HasRow(line) == (\E j \in 1..Len(line) : line[j] # EmptyField) /\ Len(line) >= 2

\* get_connected_devices that does not look at the return code
get_connected_devices_IgnoreReturnCode(bridge, model) ==
    IF bridge.status = "raise" THEN [raised |-> FALSE, value |-> <<>>]
    ELSE LET lines == Tail(Strip(bridge.stdout)) IN
         IF \E i \in 1..Len(lines) : HasRow(lines[i]) /\ Len(lines[i]) # 2
         THEN [raised |-> FALSE, value |-> <<>>]
         ELSE LET ready == SelectSeq(lines, LAMBDA l : HasRow(l) /\ l[2] = DEVICE) IN
              [raised |-> FALSE,
               value |-> [i \in 1..Len(ready) |->
                            [id |-> ready[i][1], status |-> ready[i][2],
                             type |-> get_device_type(ready[i][1], model)]]]

\* get_connected_devices that keeps every row, whatever its status
get_connected_devices_NoStatusFilter(bridge, model) ==
    IF bridge.status = "raise" THEN [raised |-> FALSE, value |-> <<>>]
    ELSE IF bridge.returncode # 0 THEN [raised |-> FALSE, value |-> <<>>]
    ELSE LET lines == Tail(Strip(bridge.stdout)) IN
         IF \E i \in 1..Len(lines) : HasRow(lines[i]) /\ Len(lines[i]) # 2
         THEN [raised |-> FALSE, value |-> <<>>]
         ELSE LET ready == SelectSeq(lines, LAMBDA l : HasRow(l)) IN
              [raised |-> FALSE,
               value |-> [i \in 1..Len(ready) |->
                            [id |-> ready[i][1], status |-> ready[i][2],
                             type |-> get_device_type(ready[i][1], model)]]]

\* get_connected_devices without the except clause around the row loop: the
\* ValueError of the unpacking leaves the method
get_connected_devices_UnpackEscapes(bridge, model) ==
    IF bridge.status = "raise" THEN [raised |-> FALSE, value |-> <<>>]
    ELSE IF bridge.returncode # 0 THEN [raised |-> FALSE, value |-> <<>>]
    ELSE LET lines == Tail(Strip(bridge.stdout)) IN
         IF \E i \in 1..Len(lines) : HasRow(lines[i]) /\ Len(lines[i]) # 2
         THEN [raised |-> TRUE, value |-> <<>>]
         ELSE LET ready == SelectSeq(lines, LAMBDA l : HasRow(l) /\ l[2] = DEVICE) IN
              [raised |-> FALSE,
               value |-> [i \in 1..Len(ready) |->
                            [id |-> ready[i][1], status |-> ready[i][2],
                             type |-> get_device_type(ready[i][1], model)]]]

\* DeviceRegistration.get_connected_devices: what it returns, and whether an
\* exception leaves it
get_connected_devices(bridge, model) ==
    \* subprocess.run raised: except Exception, return []
    IF bridge.status = "raise" THEN [raised |-> FALSE, value |-> <<>>]
    ELSE IF bridge.returncode # 0 THEN [raised |-> FALSE, value |-> <<>>]
    ELSE LET lines == Tail(Strip(bridge.stdout)) IN
         \* device_id, status = line.split('\t') raises ValueError on a row with
         \* a second tab: except Exception, return []
         IF \E i \in 1..Len(lines) : HasRow(lines[i]) /\ Len(lines[i]) # 2
         THEN [raised |-> FALSE, value |-> <<>>]
         ELSE LET ready == SelectSeq(lines, LAMBDA l : HasRow(l) /\ l[2] = DEVICE) IN
              [raised |-> FALSE,
               value |-> [i \in 1..Len(ready) |->
                            [id |-> ready[i][1], status |-> ready[i][2],
                             type |-> get_device_type(ready[i][1], model)]]]

GetConnectedDevices(model) ==
    /\ LET r == get_connected_devices(adb, model) IN
         reg_ret' = [op |-> "get_connected_devices", arg |-> None,
                     raised |-> r.raised, value |-> r.value]
    /\ reg_trace' = <<"get_connected_devices">>
    /\ UNCHANGED <<adb, registered_devices, last_session>>
    /\ UNCHANGED agent_vars
    /\ UNCHANGED ext_vars

\* the bridge's answer changes: devices come and go, the bridge breaks
BridgeChange(b) ==
    /\ adb # b
    /\ adb' = b
    /\ UNCHANGED <<registered_devices, last_session, reg_ret, reg_trace>>
    /\ UNCHANGED agent_vars
    /\ UNCHANGED ext_vars

----------------------------------------------------------------------------
(* DeviceRegistration: the registrations.  registered_devices is a Python dict: *)
(* a sequence of <<key, value>> pairs in insertion order, one pair per key.     *)

DictKeys(d) == {d[i][1] : i \in 1..Len(d)}
DictGet(d, k) == (CHOOSE i \in 1..Len(d) : d[i][1] = k)
DictSet(d, k, v) ==
    IF k \in DictKeys(d)
    THEN [i \in 1..Len(d) |-> IF d[i][1] = k THEN <<k, v>> ELSE d[i]]
    ELSE Append(d, <<k, v>>)

\* device_id.replace('-', '_')
ReplaceDash(id) == [i \in 1..Len(id) |-> IF id[i] = "-" THEN "_" ELSE id[i]]

\* f"gbox_{device_id.replace('-', '_')}_{int(time.time())}"
MakeGboxId(id, t) == <<"gbox", "_">> \o ReplaceDash(id) \o <<"_", ToString(IntTime(t))>>

\* install_gbox_agent: the package query raises, or finds the agent, or does not
InstallAnswers == {"raise", "installed", "absent"}
install_gbox_agent(answer) == IF answer = "raise" THEN FALSE ELSE TRUE

\* register_with_gbox that stores the record under the session id
register_with_gbox_KeyedBySession(regs, id, answer, t1, t2) ==
    IF ~install_gbox_agent(answer)
    THEN [registered_devices |-> regs, value |-> None, raised |-> FALSE]
    ELSE LET gbox_device_id == MakeGboxId(id, t1) IN
         [registered_devices |->
              DictSet(regs, gbox_device_id,
                      [gbox_device_id |-> gbox_device_id, registration_time |-> t2,
                       status |-> "registered"]),
          value |-> Some(gbox_device_id),
          raised |-> FALSE]

\* register_with_gbox that stores the record before the install check
register_with_gbox_StoreBeforeInstall(regs, id, answer, t1, t2) ==
    LET gbox_device_id == MakeGboxId(id, t1)
        stored == DictSet(regs, id,
                          [gbox_device_id |-> gbox_device_id, registration_time |-> t2,
                           status |-> "registered"])
    IN  [registered_devices |-> stored,
         value |-> IF install_gbox_agent(answer) THEN Some(gbox_device_id) ELSE None,
         raised |-> FALSE]

\* DeviceRegistration.register_with_gbox(device_id, gbox_api_key), with the
\* install step's answer and the two readings of the clock
register_with_gbox(regs, id, answer, t1, t2) ==
    IF ~install_gbox_agent(answer)
    THEN [registered_devices |-> regs, value |-> None, raised |-> FALSE]
    ELSE LET gbox_device_id == MakeGboxId(id, t1) IN
         [registered_devices |->
              DictSet(regs, id,
                      [gbox_device_id |-> gbox_device_id, registration_time |-> t2,
                       status |-> "registered"]),
          value |-> Some(gbox_device_id),
          raised |-> FALSE]

RegClockValues == 0..MaxRegTime

\* the environment's choices for one register_with_gbox call: the install step's
\* answer and, when the call gets that far, the two readings of the clock
InstallChoices ==
    \* one answer of the install step for each result install_gbox_agent can give
    {CHOOSE a \in InstallAnswers : install_gbox_agent(a) = b :
        b \in {install_gbox_agent(a) : a \in InstallAnswers}}

RegisterInputs ==
    {i \in [answer : InstallChoices, t1 : RegClockValues, t2 : RegClockValues] :
        ~install_gbox_agent(i.answer) => (i.t1 = 0 /\ i.t2 = 0)}

RegisterWithGbox(id) ==
    \E i \in RegisterInputs :
    /\ LET r == register_with_gbox(registered_devices, id, i.answer, i.t1, i.t2) IN
        /\ registered_devices' = r.registered_devices
        /\ reg_ret' = [op |-> "register_with_gbox", arg |-> Some(id),
                       raised |-> r.raised, value |-> r.value]
        /\ last_session' = IF r.value = None THEN last_session
                           ELSE [last_session EXCEPT ![id] = r.value]
    /\ reg_trace' = <<"register_with_gbox">>
    /\ UNCHANGED adb
    /\ UNCHANGED agent_vars
    /\ UNCHANGED ext_vars

\* DeviceRegistration.list_registered_devices: one entry per record
list_registered_devices(regs) ==
    [i \in 1..Len(regs) |->
        [device_id |-> regs[i][1],
         gbox_device_id |-> regs[i][2].gbox_device_id,
         registration_time |-> regs[i][2].registration_time,
         status |-> regs[i][2].status]]

ListRegisteredDevices ==
    /\ reg_ret' = [op |-> "list_registered_devices", arg |-> None, raised |-> FALSE,
                   value |-> list_registered_devices(registered_devices)]
    /\ reg_trace' = <<"list_registered_devices">>
    /\ UNCHANGED <<adb, registered_devices, last_session>>
    /\ UNCHANGED agent_vars
    /\ UNCHANGED ext_vars

\* install_gbox_agent called by itself
InstallGboxAgent(id) ==
    /\ \E answer \in InstallChoices :
         reg_ret' = [op |-> "install_gbox_agent", arg |-> Some(id), raised |-> FALSE,
                     value |-> install_gbox_agent(answer)]
    /\ reg_trace' = <<"install_gbox_agent">>
    /\ UNCHANGED <<adb, registered_devices, last_session>>
    /\ UNCHANGED agent_vars
    /\ UNCHANGED ext_vars

\* the dict returned for a device id without a record
NotRegistered == [status |-> "not_registered"]

\* get_registration_status that reports every device as not registered
get_registration_status_AlwaysNotRegistered(regs, id) == NotRegistered

\* DeviceRegistration.get_registration_status(device_id): the stored record, or
\* {'status': 'not_registered'}
get_registration_status(regs, id) ==
    IF id \in DictKeys(regs) THEN regs[DictGet(regs, id)][2] ELSE NotRegistered

GetRegistrationStatus(id) ==
    /\ reg_ret' = [op |-> "get_registration_status", arg |-> Some(id), raised |-> FALSE,
                   value |-> get_registration_status(registered_devices, id)]
    /\ reg_trace' = <<"get_registration_status">>
    /\ UNCHANGED <<adb, registered_devices, last_session>>
    /\ UNCHANGED agent_vars
    /\ UNCHANGED ext_vars

----------------------------------------------------------------------------
(* DeviceRegistration.get_device_info *)

\* the five properties get_device_info asks for, in the order of the loop
PropertyNames ==
    <<"ro.product.model", "ro.product.brand", "ro.product.name",
      "ro.build.version.release", "ro.build.version.sdk">>

\* result.stdout.strip() of a property query that succeeds
PropValue == "value"

\* what one `adb -s <id> shell getprop <prop>` invocation does: subprocess.run
\* raises (cannot start, timeout), it exits non-zero, or it prints the value
PropAnswers == {"raise", "nonzero", PropValue}

\* what the `wm size` invocation does: it raises, it exits non-zero, it prints
\* "Physical size: 1080x2400", it prints "Physical size:1080x2400" (no blank
\* after the colon), or it prints something without "Physical size:"
SizeAnswers == {"raise", "nonzero", "physical", "nospace", "other"}

\* the properties dict after the first k queries of the loop (lines 105-117):
\* a value on return code 0, 'unknown' on an exception, no key on a non-zero exit
Properties(props, k) ==
    LET fill[n \in 0..k] ==
            IF n = 0 THEN <<>>
            ELSE IF props[n] = "raise" THEN DictSet(fill[n - 1], PropertyNames[n], "unknown")
            ELSE IF props[n] = "nonzero" THEN fill[n - 1]
            ELSE DictSet(fill[n - 1], PropertyNames[n], props[n])
    IN  fill[k]

\* info['screen_size'] (lines 120-134): absent, or present with a value
ScreenSize(size) ==
    IF size = "raise" THEN Some("unknown")
    ELSE IF size = "nonzero" THEN None
    ELSE IF size = "physical" THEN Some("1080x2400")
    \* 'Physical size:' is in the output but split('Physical size: ') gives one
    \* piece: [1] raises IndexError, caught by the inner except
    ELSE IF size = "nospace" THEN Some("unknown")
    ELSE None

\* DeviceRegistration.get_device_info(device_id) against a device shell
get_device_info(id, shell) ==
    [raised |-> FALSE,
     value |-> [id |-> id,
                type |-> get_device_type(id, shell.model),
                properties |-> Properties(shell.props, Len(PropertyNames)),
                screen_size |-> ScreenSize(shell.size)]]

ShellAnswers ==
    [model : ModelAnswers, props : [1..Len(PropertyNames) -> PropAnswers], size : SizeAnswers]

GetDeviceInfo(id) ==
    /\ LET r == get_device_info(id, getprop) IN
         reg_ret' = [op |-> "get_device_info", arg |-> Some(id),
                     raised |-> r.raised, value |-> r.value]
    /\ reg_trace' = <<"get_device_info">>
    /\ UNCHANGED <<adb, registered_devices, last_session>>
    /\ UNCHANGED agent_vars
    /\ UNCHANGED ext_vars

----------------------------------------------------------------------------
(* GBOXDeviceManager *)

\* setup_emulator_for_gbox that registers without looking for the device
setup_emulator_for_gbox_NoCheck(regs, bridge, emulator_id, model, answer, t1, t2) ==
    LET r == register_with_gbox(regs, emulator_id, answer, t1, t2) IN
    [registered_devices |-> r.registered_devices,
     value |-> r.value,
     raised |-> FALSE,
     trace |-> <<"get_connected_devices", "get_device_info", "register_with_gbox">>]

\* GBOXDeviceManager.setup_emulator_for_gbox(emulator_id): the new registrations,
\* the returned session id or None, and the registry methods it called
setup_emulator_for_gbox(regs, bridge, emulator_id, model, answer, t1, t2) ==
    LET devices == get_connected_devices(bridge, model).value
        emulator_devices == SelectSeq(devices, LAMBDA d : d.id = emulator_id)
    IN  IF emulator_devices = <<>>
        THEN [registered_devices |-> regs, value |-> None, raised |-> FALSE,
              trace |-> <<"get_connected_devices">>]
        ELSE \* get_device_info only feeds the log; then register_with_gbox
             LET r == register_with_gbox(regs, emulator_id, answer, t1, t2) IN
             [registered_devices |-> r.registered_devices,
              value |-> r.value,
              raised |-> FALSE,
              trace |-> <<"get_connected_devices", "get_device_info",
                          "register_with_gbox">>]

\* lines 231-232: the connected devices with the wanted id
find_emulator(bridge, emulator_id, model) ==
    SelectSeq(get_connected_devices(bridge, model).value, LAMBDA d : d.id = emulator_id)

\* _get_device_type asks for the model property only on a ready row whose id
\* does not start with 'emulator-'
QueriesModel(bridge) ==
    LET devices == get_connected_devices(bridge, "phone").value IN
    \E i \in 1..Len(devices) : ~StartsWithEmulator(devices[i].id)

\* the environment's choices for one setup_emulator_for_gbox call: the model
\* property's answer when it is asked for and, when the device is found, the
\* choices of register_with_gbox
SetupInputs(emulator_id) ==
    LET none == [answer |-> "raise", t1 |-> 0, t2 |-> 0] IN
    {[model |-> m, reg |-> i] :
        m \in IF QueriesModel(adb) THEN ModelAnswers ELSE {"phone"},
        i \in IF find_emulator(adb, emulator_id, "phone") # <<>>
              THEN RegisterInputs ELSE {none}}

SetupEmulatorForGbox(emulator_id) ==
    \E i \in SetupInputs(emulator_id) :
    /\ LET r == setup_emulator_for_gbox(registered_devices, adb, emulator_id,
                                        i.model, i.reg.answer, i.reg.t1, i.reg.t2) IN
        /\ registered_devices' = r.registered_devices
        /\ reg_ret' = [op |-> "setup_emulator_for_gbox", arg |-> Some(emulator_id),
                       raised |-> r.raised, value |-> r.value]
        /\ last_session' = IF r.value = None THEN last_session
                           ELSE [last_session EXCEPT ![emulator_id] = r.value]
        /\ reg_trace' = r.trace
    /\ UNCHANGED adb
    /\ UNCHANGED agent_vars
    /\ UNCHANGED ext_vars

\* GBOXDeviceManager.get_available_devices: for each ready device its info, with
\* 'connected' and its registration status added.  The method has no try block:
\* an exception of a method it calls would leave it.
get_available_devices(regs, bridge, model, shell) ==
    LET connected == get_connected_devices(bridge, model)
        entry(device) ==
            LET device_info == get_device_info(device.id, shell)
            IN  [raised |-> device_info.raised,
                 value |-> [id |-> device_info.value.id,
                            type |-> device_info.value.type,
                            properties |-> device_info.value.properties,
                            screen_size |-> device_info.value.screen_size,
                            connected |-> TRUE,
                            registration |-> get_registration_status(regs, device.id)]]
        n == IF connected.raised THEN 0 ELSE Len(connected.value)
        escapes == connected.raised \/ \E i \in 1..n : entry(connected.value[i]).raised
    IN  [raised |-> escapes,
         value |-> IF escapes THEN None
                   ELSE Some([i \in 1..n |-> entry(connected.value[i]).value])]

GetAvailableDevices ==
    /\ \E model \in IF QueriesModel(adb) THEN ModelAnswers ELSE {"phone"} :
        LET r == get_available_devices(registered_devices, adb, model, getprop) IN
         reg_ret' = [op |-> "get_available_devices", arg |-> None,
                     raised |-> r.raised, value |-> r.value]
    /\ reg_trace' = <<"get_connected_devices", "get_device_info", "get_registration_status">>
    /\ UNCHANGED <<adb, registered_devices, last_session>>
    /\ UNCHANGED agent_vars
    /\ UNCHANGED ext_vars

----------------------------------------------------------------------------
(* The DeviceController classes: MockDeviceController (custom_agent.py),       *)
(* GBOXDeviceController ("cloud") and GBOXLocalDeviceController ("local")      *)
(* (gbox_device_controller.py).  A method is a function of self, its           *)
(* arguments and what the backend device handle does during the call.          *)

RemoteVariants == {"cloud", "local"}
Variants == RemoteVariants \cup {"mock"}

\* the abstract methods of DeviceController
Contract == {"click", "swipe", "type_text", "press_key", "get_screen_info"}

\* the methods the two remote classes define
RemoteMethods ==
    {"click", "type_text", "swipe", "get_screen_text", "take_screenshot",
     "is_connected", "get_device_info"}

\* the methods a class body defines
Methods(variant) == IF variant = "mock" THEN Contract ELSE RemoteMethods

\* the abstract methods a class leaves unimplemented (its __abstractmethods__)
AbstractMethods(variant) == Contract \ Methods(variant)

\* hasattr(controller, name): a method of the class or one inherited from
\* DeviceController (no class defines __getattr__, no instance field is a method)
HasAttr(variant, name) == name \in Methods(variant) \cup Contract

\* the caller holds no controller object
NoRemote == [variant |-> "none", device |-> None]
NoRemoteRet ==
    [op |-> "none", arg |-> <<>>, backend |-> "none", raised |-> FALSE, exc |-> None,
     value |-> None]

\* self of a controller: its class and self.device (None, or the bound handle).
\* The methods of the remote classes read nothing of self but self.device, and are
\* applied to both of its values; construct below returns no object of these
\* classes, so such a self reaches a method only from a caller that supplies one.
Handle == Some("handle")
MockObject == [variant |-> "mock", device |-> None]
RemoteSelves == [variant : RemoteVariants, device : {None, Handle}]

\* the api key argument and the GBOX_API_KEY environment variable: absent or set
KeyValues == {None, Some("key")}

\* variant(device_id, gbox_api_key) / MockDeviceController(): the exception the
\* construction raises or the object it returns, and the clients it created
construct(variant, key, env_key, sdk) ==
    IF AbstractMethods(variant) # {}
    \* ABCMeta: object.__new__ refuses a class with abstract methods left, before
    \* __init__ runs
    THEN [raised |-> TRUE, exc |-> Some("TypeError"), object |-> NoRemote, clients |-> 0]
    ELSE IF variant = "mock"
    THEN [raised |-> FALSE, exc |-> None, object |-> MockObject, clients |-> 0]
    \* __init__ line 25 / 133: super().__init__(device_id) reaches object.__init__,
    \* which takes no argument
    ELSE [raised |-> TRUE, exc |-> Some("TypeError"), object |-> NoRemote, clients |-> 0]

Construct(variant, key, env_key, sdk) ==
    /\ LET r == construct(variant, key, env_key, sdk) IN
        /\ remote' = IF r.raised THEN remote ELSE r.object
        /\ remote_ret' = [op |-> "construct",
                          arg |-> <<variant, key, env_key, sdk>>,
                          backend |-> "none",
                          raised |-> r.raised, exc |-> r.exc,
                          value |-> IF r.raised THEN None ELSE Some(r.object)]
    /\ UNCHANGED getprop
    /\ UNCHANGED agent_vars
    /\ UNCHANGED reg_vars
    /\ UNCHANGED integ_vars

\* Python's None as a returned value, among returned strings
PyNone == "None"

\* what the device handle does when a method calls it: it returns (a true or a
\* false value), or it raises
BackendOutcomes == {"true", "false", "raise"}

\* the arguments of the calls
Args(op) ==
    IF op = "click" THEN {<<0, 0>>, <<500, 1200>>}
    ELSE IF op = "type_text" THEN {<<"Test Input">>}
    ELSE IF op = "swipe" THEN {<<100, 200, 300, 400>>}
    ELSE IF op = "press_key" THEN {<<"KEYCODE_HOME">>}
    ELSE {<<>>}

\* the value a remote method returns when it has no handle or the handle raises
SafeDefault(op) ==
    IF op \in {"click", "type_text", "swipe", "is_connected"} THEN Some(FALSE)
    ELSE IF op = "get_screen_text" THEN Some("")
    ELSE IF op = "take_screenshot" THEN Some(PyNone)
    ELSE Some(<<>>)

\* the info mapping of get_device_info (lines 116-122, 225-232)
DeviceInfo(variant, backend) ==
    LET common == <<<<"id", "id">>, <<"name", "name">>, <<"model", "model">>,
                    <<"android_version", "android_version">>,
                    <<"connected", backend>>>> IN
    IF variant = "local" THEN Append(common, <<"type", "local_device">>) ELSE common

\* a method of a remote class run on self with the handle behaving as `backend`
remote_call(self, op, args, backend) ==
    LET returned(v) == [raised |-> FALSE, exc |-> None, value |-> Some(v)]
        default == [raised |-> FALSE, exc |-> None, value |-> SafeDefault(op)]
    IN
    IF op \in {"click", "type_text", "swipe"}
    THEN IF self.device = None THEN default
         ELSE IF backend = "raise" THEN default
         ELSE returned(TRUE)
    ELSE IF op = "get_screen_text"
    THEN IF self.device = None THEN default
         ELSE IF backend = "raise" THEN default
         ELSE returned("screen text")
    ELSE IF op = "take_screenshot"
    THEN IF self.device = None THEN default
         ELSE IF backend = "raise" THEN default
         ELSE returned("bytes")
    ELSE IF op = "is_connected"
    \* return self.device is not None and self.device.is_connected(): no try
    THEN IF self.device = None THEN returned(FALSE)
         ELSE IF backend = "raise"
         THEN [raised |-> TRUE, exc |-> Some("backend error"), value |-> None]
         ELSE returned(backend = "true")
    ELSE \* get_device_info
         IF self.device = None THEN default
         ELSE IF backend = "raise" THEN default
         ELSE returned(DeviceInfo(self.variant, backend))

\* a MockDeviceController method that refuses a click at the origin
mock_call_RejectsOrigin(op, args, t) ==
    IF op = "get_screen_info"
    THEN [raised |-> FALSE, exc |-> None,
          value |-> Some([width |-> 1080, height |-> 2400, orientation |-> "portrait",
                          timestamp |-> t])]
    ELSE [raised |-> FALSE, exc |-> None, value |-> Some(~(op = "click" /\ args = <<0, 0>>))]

\* a MockDeviceController method: every operation returns True, get_screen_info
\* the fixed size with the clock's reading
mock_call(op, args, t) ==
    IF op = "get_screen_info"
    THEN [raised |-> FALSE, exc |-> None,
          value |-> Some([width |-> 1080, height |-> 2400, orientation |-> "portrait",
                          timestamp |-> t])]
    ELSE [raised |-> FALSE, exc |-> None, value |-> Some(TRUE)]

\* controller.op(args) on the object the caller holds
call(self, op, args, backend, t) ==
    IF ~HasAttr(self.variant, op)
    THEN [raised |-> TRUE, exc |-> Some("AttributeError"), value |-> None]
    ELSE IF op \notin Methods(self.variant)
    \* the inherited abstract method: its body is `pass`
    THEN [raised |-> FALSE, exc |-> None, value |-> Some(PyNone)]
    ELSE IF self.variant = "mock" THEN mock_call(op, args, t)
    ELSE remote_call(self, op, args, backend)

\* the names a caller may ask a controller for
CallNames == Contract \cup RemoteMethods \cup {"close_box"}

\* the environment's choices for one call: the handle's behaviour when the
\* method reaches the handle, the clock's reading when get_screen_info of the
\* Mock reads the clock
CallInputs(self, op) ==
    {i \in [args : Args(op), backend : BackendOutcomes, t : ClockValues] :
        /\ (self.variant = "mock" \/ self.device = None \/ op \notin RemoteMethods)
              => i.backend = "true"
        /\ ~(self.variant = "mock" /\ op = "get_screen_info") => i.t = 0}

Call(op) ==
    /\ remote # NoRemote
    /\ \E i \in CallInputs(remote, op) :
        LET r == call(remote, op, i.args, i.backend, i.t) IN
        remote_ret' = [op |-> op, arg |-> i.args, backend |-> i.backend,
                       raised |-> r.raised, exc |-> r.exc, value |-> r.value]
    \* no method assigns a field of self
    /\ UNCHANGED remote
    /\ UNCHANGED getprop
    /\ UNCHANGED agent_vars
    /\ UNCHANGED reg_vars
    /\ UNCHANGED integ_vars

----------------------------------------------------------------------------
(* AndroidWorldIntegration *)

\* self.custom_agent when it is bound: the CustomAgent of the agent variables
BoundAgent == Some("agent")

\* AndroidWorldIntegration.__init__(adb_path, gbox_api_key, device_id)
NewIntegration(device_id, gbox_api_key) ==
    [device_id |-> device_id, gbox_api_key |-> gbox_api_key, custom_agent |-> None,
     task_registry |-> FALSE, env |-> FALSE]

\* no integration call was made yet
NoIntegRet == [op |-> "none", arg |-> None, value |-> None, session |-> None, ctor |-> None]

\* the controller construction of setup_gbox_device: the class, and the device_id
\* and gbox_api_key arguments it is given (the cloud branch passes the api key
\* as the one positional argument, which is device_id)
ControllerCtor(self, gbox_device_id) ==
    IF StartsWithEmulator(self.device_id)
    THEN [variant |-> "local", device_id |-> gbox_device_id,
          gbox_api_key |-> self.gbox_api_key]
    ELSE [variant |-> "cloud", device_id |-> self.gbox_api_key, gbox_api_key |-> None]

\* AndroidWorldIntegration.setup_gbox_device: the registrations after the
\* manager's call, the session id the manager returned, the construction made
\* and its result, and the boolean returned
setup_gbox_device(self, regs, bridge, model, answer, t1, t2, env_key, sdk) ==
    LET r == setup_emulator_for_gbox(regs, bridge, self.device_id, model, answer, t1, t2)
    IN  IF r.value = None
        THEN [registered_devices |-> r.registered_devices, trace |-> r.trace,
              session |-> None, ctor |-> None, built |-> None, value |-> FALSE]
        ELSE LET c == ControllerCtor(self, r.value[1])
                 b == construct(c.variant, c.gbox_api_key, env_key, sdk)
             IN  [registered_devices |-> r.registered_devices, trace |-> r.trace,
                  session |-> r.value, ctor |-> Some(c), built |-> Some(b),
                  \* except Exception: return False
                  value |-> ~b.raised]

\* the GBOX_API_KEY variable and the presence of the SDK at a construction: one
\* choice for each result the construction can give
CtorEnvs(c) ==
    LET envs == [env_key : KeyValues, sdk : BOOLEAN]
        built(e) == construct(c.variant, c.gbox_api_key, e.env_key, e.sdk)
    IN  {CHOOSE e \in envs : built(e) = b : b \in {built(e) : e \in envs}}

SetupGboxDevice ==
    \E i \in SetupInputs(integ.device_id), t \in ClockValues :
    \E e \in CtorEnvs(ControllerCtor(integ, <<>>)) :
    LET env_key == e.env_key
        sdk == e.sdk
        r == setup_gbox_device(integ, registered_devices, adb, i.model, i.reg.answer,
                               i.reg.t1, i.reg.t2, env_key, sdk)
    IN  \* the clock is read by CustomAgent.__init__ only
        /\ ~r.value => (t = 0)
        /\ registered_devices' = r.registered_devices
        /\ reg_ret' = [op |-> "setup_emulator_for_gbox", arg |-> Some(integ.device_id),
                       raised |-> FALSE, value |-> r.session]
        /\ last_session' = IF r.session = None THEN last_session
                           ELSE [last_session EXCEPT ![integ.device_id] = r.session]
        /\ reg_trace' = r.trace
        /\ IF r.built = None
           THEN UNCHANGED <<remote, remote_ret>>
           ELSE /\ remote' = IF r.built[1].raised THEN remote ELSE r.built[1].object
                /\ remote_ret' =
                     [op |-> "construct",
                      arg |-> <<r.ctor[1].variant, r.ctor[1].gbox_api_key, env_key, sdk>>,
                      backend |-> "none",
                      raised |-> r.built[1].raised, exc |-> r.built[1].exc,
                      value |-> IF r.built[1].raised THEN None
                                ELSE Some(r.built[1].object)]
        /\ IF r.value
           THEN \* CustomAgent(device_controller=...)
                /\ ctor_arg' = Some("custom")
                /\ device_controller' = InitController(Some("custom"))
                /\ agent_id' = MakeAgentId(t)
                /\ task_history' = <<>>
                /\ n_calls' = 0
                /\ ret' = [op |-> "init", arg |-> None, raised |-> FALSE, value |-> None]
                /\ last_run' = NoRun
                /\ integ' = [integ EXCEPT !.custom_agent = BoundAgent]
           ELSE UNCHANGED <<agent_vars, integ>>
        /\ integ_ret' = [op |-> "setup_gbox_device", arg |-> None, value |-> Some(r.value),
                         session |-> r.session, ctor |-> r.ctor]
        /\ UNCHANGED <<adb, getprop>>

\* initialize_androidworld: the import of android_world fails; or the registry
\* is made and loading the environment raises; or both are made
LoadOutcomes == {"import_error", "env_error", "ok"}

initialize_androidworld(self, outcome) ==
    [self |-> [self EXCEPT !.task_registry = IF outcome = "import_error" THEN @ ELSE TRUE,
                           !.env = IF outcome = "ok" THEN TRUE ELSE @],
     value |-> outcome = "ok"]

InitializeAndroidworld(outcome) ==
    /\ LET r == initialize_androidworld(integ, outcome) IN
        /\ integ' = r.self
        /\ integ_ret' = [op |-> "initialize_androidworld", arg |-> None,
                         value |-> Some(r.value),
                         session |-> None, ctor |-> None]
    /\ UNCHANGED <<getprop, remote, remote_ret>>
    /\ UNCHANGED agent_vars
    /\ UNCHANGED reg_vars

\* the dict returned on a failure of run_benchmark_task
ErrorDict(error) == [success |-> FALSE, error |-> error]

\* str(task.goal)
GoalOf(task_name) == <<"goal of", task_name>>

\* result["task_success"] = ...; result["goal"] = ...: the same dict with two
\* more keys
WithVerdict(result, task_success, goal) ==
    [task_name |-> result.task_name,
     success |-> result.success,
     execution_time |-> result.execution_time,
     error_message |-> result.error_message,
     timestamp |-> result.timestamp,
     task_success |-> task_success,
     goal |-> goal]

\* what the environment does around the agent's run: the task is in the registry
\* or not, building and initializing it raises or not, and task.is_successful
\* raises or gives a number
PrepOutcomes == {"ok", "raise"}
JudgeOutcomes == {"raise", "1", "0"}

\* run_benchmark_task with the two leading checks in the other order: the agent
\* is looked at before the task registry
run_benchmark_task_AgentCheckFirst(self, history, task_name, in_registry, prep, x, judge) ==
    LET quit(error) == [history |-> history, ran |-> None, value |-> ErrorDict(error)] IN
    IF self.custom_agent = None THEN quit("GBOX device not set up")
    ELSE IF ~self.task_registry THEN quit("AndroidWorld not initialized")
    ELSE IF ~in_registry THEN quit("Task not found")
    ELSE IF prep = "raise" THEN quit("task error")
    ELSE LET r == execute_task(history, task_name, x.outcomes, x.msg,
                               x.start_time, x.end_time)
             n == Len(r.history)
         IN  IF ~self.env
             THEN [history |-> r.history, ran |-> Some(r), value |-> r.result]
             ELSE IF judge = "raise"
             THEN [history |-> r.history, ran |-> Some(r), value |-> ErrorDict("task error")]
             ELSE LET result == WithVerdict(r.result, judge = "1", GoalOf(task_name)) IN
                  [history |-> [r.history EXCEPT ![n] = result],
                   ran |-> Some(r),
                   value |-> result]

\* AndroidWorldIntegration.run_benchmark_task(task_name) on the agent's history:
\* the dict returned, the history afterwards, and execute_task's result when the
\* agent ran.  The dict run_task returns is the one execute_task appended, so the
\* keys written to it are written to the last entry of the history.
run_benchmark_task(self, history, task_name, in_registry, prep, x, judge) ==
    LET quit(error) == [history |-> history, ran |-> None, value |-> ErrorDict(error)] IN
    IF ~self.task_registry THEN quit("AndroidWorld not initialized")
    ELSE IF self.custom_agent = None THEN quit("GBOX device not set up")
    ELSE IF ~in_registry THEN quit("Task not found")
    ELSE IF prep = "raise" THEN quit("task error")
    ELSE LET r == execute_task(history, task_name, x.outcomes, x.msg,
                               x.start_time, x.end_time)
             n == Len(r.history)
         IN  IF ~self.env
             THEN [history |-> r.history, ran |-> Some(r), value |-> r.result]
             ELSE IF judge = "raise"
             THEN [history |-> r.history, ran |-> Some(r), value |-> ErrorDict("task error")]
             ELSE LET result == WithVerdict(r.result, judge = "1", GoalOf(task_name)) IN
                  [history |-> [r.history EXCEPT ![n] = result],
                   ran |-> Some(r),
                   value |-> result]

\* the task names run_benchmark_task is called with (main and the integration
\* test call it with this one)
BenchTasks == {"RecipeAddMultipleRecipes"}

\* the environment's choices for one run_benchmark_task call; the ones the call
\* does not consume are fixed
BenchInputs ==
    LET runs == integ.task_registry /\ integ.custom_agent # None
        idle == [task |-> "FooBarTask", outcomes |-> [k \in 1..3 |-> "true"],
                 msg |-> "device error", start_time |-> 0, end_time |-> 0]
    IN  {i \in [in_registry : BOOLEAN, prep : PrepOutcomes, judge : JudgeOutcomes,
                x : IF runs THEN {x \in ExecInputs : x.task \in BenchTasks} ELSE {idle}] :
            /\ ~runs => (i.in_registry /\ i.prep = "ok" /\ i.judge = "1")
            /\ ~i.in_registry => (i.prep = "ok" /\ i.judge = "1" /\ i.x.outcomes = idle.outcomes
                                  /\ i.x.start_time = 0 /\ i.x.end_time = 0)
            /\ i.prep = "raise" => (i.judge = "1" /\ i.x.outcomes = idle.outcomes
                                    /\ i.x.start_time = 0 /\ i.x.end_time = 0)
            /\ ~integ.env => i.judge = "1"}

RunBenchmarkTask ==
    /\ Len(task_history) < MaxHistory
    /\ \E i \in BenchInputs :
        LET r == run_benchmark_task(integ, task_history, i.x.task, i.in_registry, i.prep,
                                    i.x, i.judge)
        IN  /\ task_history' = r.history
            /\ IF r.ran = None
               THEN UNCHANGED <<ret, last_run, n_calls>>
               ELSE \* what CustomAgent.run_task returned and met
                    /\ ret' = [op |-> "run_task", arg |-> Some(i.x.task), raised |-> FALSE,
                               value |-> Some(r.ran[1].result)]
                    /\ last_run' = [calls |-> r.ran[1].handler.calls,
                                    exc |-> r.ran[1].handler.exc,
                                    value |-> r.ran[1].handler.value,
                                    readings |-> <<i.x.start_time, i.x.end_time>>]
                    /\ n_calls' = n_calls + 1
            \* what the call returned, with the task name it was given and whether
            \* the registry held that name
            /\ integ_ret' = [op |-> "run_benchmark_task",
                             arg |-> <<i.x.task, i.in_registry>>,
                             value |-> Some(r.value), session |-> None, ctor |-> None]
    /\ UNCHANGED <<ctor_arg, device_controller, agent_id, integ>>
    /\ UNCHANGED <<getprop, remote, remote_ret>>
    /\ UNCHANGED reg_vars

\* seq[:n] of Python: the first n items, all of them when there are fewer; a
\* negative n counts from the end
SliceTo(seq, n) ==
    IF n >= Len(seq) THEN seq
    ELSE IF n >= 0 THEN SubSeq(seq, 1, n)
    ELSE IF Len(seq) + n > 0 THEN SubSeq(seq, 1, Len(seq) + n)
    ELSE <<>>

\* successful_tasks / len(results) as a fraction, and the 0 of an empty results
Fraction(num, den) == [num |-> num, den |-> den]
ZeroRate == Fraction(0, 1)

\* F of the value of v, with v computed once
Let(F(_), v) == CHOOSE y \in {F(x) : x \in {v}} : TRUE

\* the for loop of run_multiple_tasks over the names, first to last: every
\* run_benchmark_task call starts from the history the call before it left;
\* inputs[k] is what the environment does around the k-th call
RECURSIVE RunEach(_, _, _, _)
RunEach(self, history, names, inputs) ==
    IF names = <<>> THEN [history |-> history, results |-> <<>>, ran |-> <<>>]
    ELSE LET n == Len(names)
             i == inputs[n]
             step(before) ==
                 LET appended(r) == [history |-> r.history,
                                     results |-> Append(before.results, r.value),
                                     ran |-> before.ran \o r.ran]
                 IN  Let(appended,
                         run_benchmark_task(self, before.history, names[n], i.in_registry,
                                            i.prep, i.x, i.judge))
         IN  Let(step, RunEach(self, history, SubSeq(names, 1, n - 1), inputs))

\* `if result.get("success", False): successful_tasks += 1` over the results
CountSuccessful(results) == Cardinality({k \in 1..Len(results) : results[k].success})

\* the dict run_multiple_tasks returns, with the history and the agent's runs
\* the loop left
BatchSummary(each) ==
    [history |-> each.history,
     ran |-> each.ran,
     value |-> [total_tasks |-> Len(each.results),
                successful_tasks |-> CountSuccessful(each.results),
                success_rate |-> IF each.results # <<>>
                                 THEN Fraction(CountSuccessful(each.results),
                                               Len(each.results))
                                 ELSE ZeroRate,
                results |-> each.results]]

\* run_multiple_tasks with the loop over task_names instead of task_names[:max_tasks]
run_multiple_tasks_NoLimit(self, history, task_names, max_tasks, inputs) ==
    Let(BatchSummary, RunEach(self, history, task_names, inputs))

\* AndroidWorldIntegration.run_multiple_tasks(task_names, max_tasks): the dict
\* returned, the agent's history afterwards and the runs the agent made
run_multiple_tasks(self, history, task_names, max_tasks, inputs) ==
    Let(BatchSummary, RunEach(self, history, SliceTo(task_names, max_tasks), inputs))

\* the names run_multiple_tasks is given (two names with a handler of their own,
\* so that the results tell which task they are of)
BatchNames == {"RecipeAddMultipleRecipes", "SimpleCalendarAddOneEvent"}

\* what the environment does around one task of the batch: the task runs and
\* every controller call answers True, or the first controller call raises, or
\* the registry does not hold the name
BatchChoices ==
    LET smooth == [task |-> "RecipeAddMultipleRecipes", outcomes |-> [k \in 1..3 |-> "true"],
                   msg |-> "device error", start_time |-> 0, end_time |-> MaxTime]
        choice(in_registry, x) ==
            [in_registry |-> in_registry, prep |-> "ok", judge |-> "1", x |-> x]
    IN  {choice(TRUE, smooth),
         choice(TRUE, [smooth EXCEPT !.outcomes[1] = "raise"]),
         choice(FALSE, smooth)}

RunMultipleTasks ==
    \* the history stays within MaxHistory
    /\ Len(task_history) + MaxBatch <= MaxHistory
    /\ \E task_names \in SeqsUpTo(BatchNames, MaxNames), max_tasks \in 0..MaxBatch :
       \E inputs \in [1..Len(task_names) -> BatchChoices] :
        \* the choices for the names past max_tasks are not consumed
        /\ \A k \in (Len(SliceTo(task_names, max_tasks)) + 1)..Len(task_names) :
                inputs[k] \in {i \in BatchChoices : ~i.in_registry}
        \* nor are any when every call returns before the registry is read
        /\ (~integ.task_registry \/ integ.custom_agent = None) =>
                \A k \in 1..Len(task_names) : ~inputs[k].in_registry
        /\ \E r \in {run_multiple_tasks(integ, task_history, task_names, max_tasks, inputs)} :
           LET m == Len(r.ran)
           IN  /\ task_history' = r.history
               /\ IF m = 0
                  THEN UNCHANGED <<ret, last_run, n_calls>>
                  ELSE \* what the last CustomAgent.run_task returned and met
                       /\ ret' = [op |-> "run_task", arg |-> Some(r.ran[m].result.task_name),
                                  raised |-> FALSE, value |-> Some(r.ran[m].result)]
                       /\ last_run' = [calls |-> r.ran[m].handler.calls,
                                       exc |-> r.ran[m].handler.exc,
                                       value |-> r.ran[m].handler.value,
                                       readings |-> <<0, MaxTime>>]
                       /\ n_calls' = n_calls + m
               /\ integ_ret' = [op |-> "run_multiple_tasks",
                                arg |-> <<task_names, max_tasks>>,
                                value |-> Some(r.value), session |-> None, ctor |-> None]
    /\ UNCHANGED <<ctor_arg, device_controller, agent_id, integ>>
    /\ UNCHANGED <<getprop, remote, remote_ret>>
    /\ UNCHANGED reg_vars

\* AndroidWorldIntegration.cleanup: close_box is called only on a controller that
\* has the attribute; env.close() leaves the fields of self as they are
cleanup(self, controller) ==
    IF self.custom_agent # None /\ HasAttr(controller.variant, "close_box")
    THEN Some(call(controller, "close_box", <<>>, "true", 0))
    ELSE None

Cleanup ==
    /\ LET c == cleanup(integ, remote) IN
        /\ integ_ret' = [op |-> "cleanup", arg |-> None, value |-> Some(c # None),
                         session |-> None, ctor |-> None]
        /\ remote_ret' = IF c = None THEN remote_ret
                         ELSE [op |-> "close_box", arg |-> <<>>, backend |-> "true",
                               raised |-> c[1].raised, exc |-> c[1].exc,
                               value |-> c[1].value]
    /\ UNCHANGED <<getprop, remote, integ>>
    /\ UNCHANGED agent_vars
    /\ UNCHANGED reg_vars

----------------------------------------------------------------------------
(* Specifications *)

InitAgent ==
    /\ ctor_arg = None
    /\ device_controller = NoAgent
    /\ agent_id = None
    /\ task_history = <<>>
    /\ n_calls = 0
    /\ ret = [op |-> "none", arg |-> None, raised |-> FALSE, value |-> None]
    /\ last_run = NoRun

\* a bridge that runs and lists no device
QuietBridge == [status |-> "exit", returncode |-> 0, stdout |-> HeaderOnly]

InitRegistration ==
    /\ registered_devices = <<>>
    /\ last_session = [id \in DeviceIds |-> None]
    /\ reg_ret = [op |-> "none", arg |-> None, raised |-> FALSE, value |-> None]
    /\ reg_trace = <<>>

InitRegistry ==
    /\ adb = QuietBridge
    /\ InitRegistration

\* a device shell that answers every query
QuietShell ==
    [model |-> "phone", props |-> [k \in 1..Len(PropertyNames) |-> PropValue],
     size |-> "physical"]

InitRemote ==
    /\ remote = NoRemote
    /\ remote_ret = NoRemoteRet

\* AndroidWorldIntegration(adb_path, gbox_api_key): device_id defaults to
\* "emulator-5554"; no agent, no task registry, no environment
InitInteg ==
    /\ integ = NewIntegration(EMU, Some("key"))
    /\ integ_ret = NoIntegRet

InitExt ==
    /\ getprop = QuietShell
    /\ InitRemote
    /\ InitInteg

Init ==
    /\ InitAgent
    /\ InitRegistry
    /\ InitExt

Next ==
    \/ \E arg \in {None, Some("custom")}, t \in ClockValues : NewAgent(arg, t)
    \/ RunTask
    \/ \E t \in ClockValues : GetStatus(t)
    \/ GetTaskHistory

Spec == Init /\ [][Next]_vars

\* the task handlers against every answer of the controller
NextExec ==
    \/ \E arg \in {None, Some("custom")}, t \in ClockValues : NewAgent(arg, t)
    \/ ExecuteTask

SpecExec == Init /\ [][NextExec]_vars

\* get_connected_devices on every answer of the bridge
InitBridge ==
    /\ InitAgent
    /\ adb \in BridgeAnswers(MaxRows)
    /\ InitRegistration
    /\ InitExt

NextBridge == \E m \in ModelAnswers : GetConnectedDevices(m)

SpecBridge == InitBridge /\ [][NextBridge]_vars

\* get_device_info on every answer of the device shell
InitInfo ==
    /\ InitAgent
    /\ InitRegistry
    /\ getprop \in ShellAnswers
    /\ InitRemote
    /\ InitInteg

NextInfo ==
    \/ \E id \in DeviceIds : GetDeviceInfo(id)
    \/ \E id \in DeviceIds : GetDeviceType(id)

SpecInfo == InitInfo /\ [][NextInfo]_vars

\* the controller classes: constructions, and method calls on every self
InitCtl ==
    /\ InitAgent
    /\ InitRegistry
    /\ getprop = QuietShell
    /\ remote \in {NoRemote} \cup RemoteSelves
    /\ remote_ret = NoRemoteRet
    /\ InitInteg

NextCtl ==
    \/ \E v \in Variants, key \in KeyValues, env_key \in KeyValues, sdk \in BOOLEAN :
          Construct(v, key, env_key, sdk)
    \/ \E op \in CallNames : Call(op)

SpecCtl == InitCtl /\ [][NextCtl]_vars

\* the registry and the manager, while the bridge's answer changes
NextReg ==
    \/ \E b \in RegBridgeAnswers : BridgeChange(b)
    \/ \E id \in DeviceIds : RegisterWithGbox(id)
    \/ \E id \in DeviceIds : SetupEmulatorForGbox(id)
    \/ ListRegisteredDevices

SpecReg == Init /\ [][NextReg]_vars

\* the answers of the bridge the registry layer has to survive: it cannot be
\* started or times out, it exits non-zero, it lists a ready device, or it lists
\* a row with a second tab before a ready row
HardBridgeAnswers ==
    {[status |-> "raise", returncode |-> 0, stdout |-> HeaderOnly],
     [status |-> "exit", returncode |-> 1, stdout |-> HeaderOnly]}
        \cup {[status |-> "exit", returncode |-> 0, stdout |-> HeaderOnly \o rows] :
                rows \in {<<<<EMU, DEVICE>>>>,
                          <<<<EMU, DEVICE, EmptyField>>, <<PHY, DEVICE>>>>}}

\* device shells: every query answers; or the queries raise and exit non-zero in
\* turn and the size query prints what the code does not expect
HardShells ==
    {QuietShell,
     [model |-> "raise",
      props |-> [k \in 1..Len(PropertyNames) |-> IF k % 2 = 1 THEN "raise" ELSE "nonzero"],
      size |-> "nospace"]}

\* every method of the registry layer, on every such bridge and shell
InitRegistryLayer ==
    /\ InitAgent
    /\ adb \in HardBridgeAnswers
    /\ InitRegistration
    /\ getprop \in HardShells
    /\ InitRemote
    /\ InitInteg

NextRegistryLayer ==
    \/ \E m \in ModelAnswers : GetConnectedDevices(m)
    \/ \E id \in DeviceIds : GetDeviceInfo(id)
    \/ \E id \in DeviceIds : InstallGboxAgent(id)
    \/ \E id \in DeviceIds : RegisterWithGbox(id)
    \/ \E id \in DeviceIds : GetRegistrationStatus(id)
    \/ \E id \in DeviceIds : SetupEmulatorForGbox(id)
    \/ GetAvailableDevices

SpecRegistryLayer == InitRegistryLayer /\ [][NextRegistryLayer]_vars

\* the integration layer as constructed, on every device, api key and answer of
\* the bridge
InitIntegSpec ==
    /\ InitAgent
    /\ adb \in RegBridgeAnswers
    /\ InitRegistration
    /\ getprop = QuietShell
    /\ InitRemote
    /\ integ \in {NewIntegration(id, key) : id \in DeviceIds, key \in KeyValues}
    /\ integ_ret = NoIntegRet

NextInteg ==
    \/ SetupGboxDevice
    \/ \E outcome \in LoadOutcomes : InitializeAndroidworld(outcome)
    \/ RunBenchmarkTask
    \/ Cleanup

SpecInteg == InitIntegSpec /\ [][NextInteg]_vars

\* run_benchmark_task and cleanup as functions of self: an integration object
\* as constructed, or one whose custom_agent holds a CustomAgent with a
\* controller of a remote class (setup_gbox_device binds none while construct
\* returns no such controller)
InitBench ==
    /\ ctor_arg = Some("custom")
    /\ device_controller = InitController(ctor_arg)
    /\ agent_id = MakeAgentId(0)
    /\ task_history = <<>>
    /\ n_calls = 0
    /\ ret = [op |-> "init", arg |-> None, raised |-> FALSE, value |-> None]
    /\ last_run = NoRun
    /\ InitRegistry
    /\ getprop = QuietShell
    /\ integ \in {[NewIntegration(EMU, Some("key")) EXCEPT !.custom_agent = a] :
                    a \in {None, BoundAgent}}
    /\ integ_ret = NoIntegRet
    /\ remote \in {c \in RemoteSelves : c.variant = ControllerCtor(integ, <<>>).variant}
    /\ remote_ret = NoRemoteRet

NextBench ==
    \/ \E outcome \in LoadOutcomes : InitializeAndroidworld(outcome)
    \/ RunBenchmarkTask
    \/ GetTaskHistory
    \/ Cleanup

SpecBench == InitBench /\ [][NextBench]_vars

\* run_multiple_tasks on the same integration objects
NextMulti ==
    \/ \E outcome \in LoadOutcomes : InitializeAndroidworld(outcome)
    \/ RunMultipleTasks

SpecMulti == InitBench /\ [][NextMulti]_vars

----------------------------------------------------------------------------
(* Properties of the task executor and the agent *)

NamedTasks == {"RecipeAddMultipleRecipes", "SimpleCalendarAddOneEvent"}

\* the last call was run_task, and this is the result it returned
LastWasRun == ret.op = "run_task"
Result == ret.value[1]

IsPrefix(s, t) == Len(s) <= Len(t) /\ SubSeq(t, 1, Len(s)) = s

TimestampsNonDecreasing(h) ==
    \A i, j \in 1..Len(h) : i < j => h[i].timestamp <= h[j].timestamp

\* C1: every execute_task call appends exactly one result, whether the handler
\* returned or raised: after N calls on one executor the history holds N entries,
\* and the entry appended last is the result the call returned.
C1_OneEntryPerCall ==
    /\ Len(task_history) = n_calls
    /\ LastWasRun => /\ ~ret.raised
                     /\ Len(task_history) >= 1
                     /\ task_history[Len(task_history)] = Result

\* two calls were made, one whose handler raised and one whose handler returned
C1_Witness ==
    /\ n_calls = 2
    /\ \E i, j \in 1..Len(task_history) :
          task_history[i].success /\ ~task_history[j].success

C3_ExceptionCaught ==
    LastWasRun =>
        /\ ~ret.raised
        /\ ret.value # None
        /\ (last_run.exc # None =>
                /\ Result.success = FALSE
                /\ Result.error_message = last_run.exc)
        /\ (last_run.exc = None =>
                /\ last_run.value # None
                /\ Result.success = last_run.value[1]
                /\ Result.error_message = None)

\* a controller call raised in the second step of a handler
C3_Witness ==
    /\ LastWasRun
    /\ last_run.exc = Some("device error")
    /\ Len(last_run.calls) = 2
    /\ Result.success = FALSE

\* C4: a task name other than the two named ones goes to the generic handler:
\* no call is issued on the bound controller and the result has success = true.
C4_GenericNoDeviceCalls ==
    (LastWasRun /\ ret.arg[1] \notin NamedTasks) =>
        /\ last_run.calls = <<>>
        /\ last_run.exc = None
        /\ Result.success = TRUE
        /\ Result.task_name = ret.arg[1]

\* "FooBarTask" was run on a controller that may fail
C4_Witness ==
    /\ LastWasRun
    /\ ret.arg = Some("FooBarTask")
    /\ device_controller = "custom"
    /\ Result.success

\* C5: an Agent constructed with no controller uses the Mock backend, and on it
\* run_task of a named task returns success = true with the requested task name,
\* and the history grows by one entry (length 1 after the first run).
C5_DefaultMockRunsNamedTasks ==
    /\ (device_controller # NoAgent /\ ctor_arg = None) => device_controller = "mock"
    /\ (ctor_arg = None /\ LastWasRun /\ ret.arg[1] \in NamedTasks) =>
            /\ Result.success = TRUE
            /\ Result.task_name = ret.arg[1]
            /\ Result.error_message = None
            /\ Len(task_history) = n_calls
            /\ task_history[n_calls] = Result

\* the first run on a default Agent was the recipe task
C5_Witness ==
    /\ device_controller = "mock"
    /\ ctor_arg = None
    /\ LastWasRun
    /\ ret.arg = Some("RecipeAddMultipleRecipes")
    /\ Len(task_history) = 1
    /\ task_history[1].success

----------------------------------------------------------------------------
(* Properties of the registry and the manager *)

LastWasListing == reg_ret.op = "get_connected_devices"

\* the rows the bridge printed after its header
Rows(bridge) == Tail(bridge.stdout)

\* a row whose status field is "device"
IsReadyRow(line) == Len(line) >= 2 /\ line[2] = DEVICE

\* the id and status of every entry of a device list, in order
IdStatus(devices) == [i \in 1..Len(devices) |-> <<devices[i].id, devices[i].status>>]

\* the id and status of the ready rows, in listing order
ReadyRows(bridge) ==
    LET ready == SelectSeq(Rows(bridge), IsReadyRow) IN
    [i \in 1..Len(ready) |-> <<ready[i][1], ready[i][2]>>]

\* every line after the header holds at most one tab
OneTabPerRow(bridge) == \A i \in 1..Len(Rows(bridge)) : Len(Rows(bridge)[i]) <= 2

BridgeSucceeded(bridge) == bridge.status = "exit" /\ bridge.returncode = 0

\* the registered ids
RegisteredIds == {id \in DeviceIds : last_session[id] # None}

\* C6: the registration map holds at most one record per device id: the number of
\* records is the number of distinct ids registered successfully, and each id's
\* record holds the session id its most recent successful registration returned.
C6_OneRecordPerDeviceId ==
    /\ \A i, j \in 1..Len(registered_devices) :
          registered_devices[i][1] = registered_devices[j][1] => i = j
    /\ DictKeys(registered_devices) = RegisteredIds
    /\ Len(registered_devices) = Cardinality(RegisteredIds)
    /\ \A i \in 1..Len(registered_devices) :
          /\ registered_devices[i][1] \in RegisteredIds
          /\ Some(registered_devices[i][2].gbox_device_id)
                = last_session[registered_devices[i][1]]

\* the emulator was registered, then the phone, then the emulator again in
\* another second
C6_Witness ==
    /\ Len(registered_devices) = 2
    /\ registered_devices[1][1] = EMU
    /\ registered_devices[2][1] = PHY
    /\ reg_ret.op = "register_with_gbox"
    /\ reg_ret.arg = Some(EMU)
    /\ reg_ret.value = Some(MakeGboxId(EMU, MaxRegTime))
    /\ registered_devices[1][2].gbox_device_id = MakeGboxId(EMU, MaxRegTime)

\* C7 (as claimed): a successful register_with_gbox call for an id that was
\* registered before returns a session id different from the one before, whatever
\* the clock reads.
C7_SessionIdsDiffer ==
    [][\A id \in DeviceIds :
          (/\ RegisterWithGbox(id)
           /\ reg_ret'.value # None
           /\ last_session[id] # None)
            => reg_ret'.value # last_session[id]]_vars

\* C8 (as claimed): when the bridge succeeds, get_connected_devices returns exactly
\* the rows after the header whose status is "device", in listing order.
C8_ExactlyTheReadyRows ==
    (LastWasListing /\ BridgeSucceeded(adb)) =>
        IdStatus(reg_ret.value) = ReadyRows(adb)

\* C8 (amended): when the bridge succeeds and every line after the header holds
\* at most one tab, get_connected_devices returns exactly the rows whose status is
\* "device", in listing order, one entry per row; a listing with a row of three
\* non-empty fields gives the empty list.
C8_ReadyRowsOfOneTabListing ==
    (LastWasListing /\ BridgeSucceeded(adb)) =>
        /\ OneTabPerRow(adb) =>
              /\ IdStatus(reg_ret.value) = ReadyRows(adb)
              /\ \A i \in 1..Len(reg_ret.value) :
                    /\ reg_ret.value[i].status = DEVICE
                    /\ reg_ret.value[i].type \in {"emulator", "physical", "unknown"}
        /\ (\E i \in 1..Len(Rows(adb)) :
                /\ Len(Rows(adb)[i]) = 3
                /\ \A j \in 1..3 : Rows(adb)[i][j] # EmptyField)
              => reg_ret.value = <<>>

\* two "device" rows around an "offline" row: the two ready devices are returned
C8_Witness ==
    /\ LastWasListing
    /\ BridgeSucceeded(adb)
    /\ Rows(adb) = <<<<EMU, DEVICE>>, <<EMU, OFFLINE>>, <<PHY, DEVICE>>>>
    /\ IdStatus(reg_ret.value) = <<<<EMU, DEVICE>>, <<PHY, DEVICE>>>>

\* C9: when the bridge invocation fails (it cannot be started, it times out, it
\* exits non-zero), get_connected_devices returns the empty list and raises nothing.
C9_BridgeFailureGivesEmptyList ==
    (LastWasListing /\ ~BridgeSucceeded(adb)) =>
        /\ reg_ret.value = <<>>
        /\ ~reg_ret.raised

\* the bridge exited non-zero after printing a ready row
C9_Witness ==
    /\ LastWasListing
    /\ adb.status = "exit"
    /\ adb.returncode = 1
    /\ \E i \in 1..Len(Rows(adb)) : Rows(adb)[i] = <<EMU, DEVICE>>
    /\ reg_ret.value = <<>>

\* the id is on a "device" row of a listing the bridge delivered
ListedReady(bridge, id) ==
    /\ BridgeSucceeded(bridge)
    /\ \E i \in 1..Len(Rows(bridge)) : IsReadyRow(Rows(bridge)[i]) /\ Rows(bridge)[i][1] = id

\* a step of setup_emulator_for_gbox(id): every call sets reg_ret and leaves the
\* bridge alone, a change of the bridge leaves reg_ret alone
SetupStep(id) ==
    /\ adb' = adb
    /\ reg_ret'.op = "setup_emulator_for_gbox"
    /\ reg_ret'.arg = Some(id)

\* C10: setup_emulator_for_gbox(id) with id not among the connected ready devices
\* returns null, enters neither get_device_info nor register_with_gbox, and leaves
\* the registration map as it was.
C10_SetupFailsFast ==
    [][\A id \in DeviceIds :
          (SetupStep(id) /\ ~ListedReady(adb, id)) =>
              /\ reg_ret'.value = None
              /\ ~reg_ret'.raised
              /\ reg_trace' = <<"get_connected_devices">>
              /\ registered_devices' = registered_devices
              /\ last_session' = last_session]_vars

\* the emulator is registered, the bridge reports no device, and setup of the
\* emulator returned null
C10_Witness ==
    /\ reg_ret.op = "setup_emulator_for_gbox"
    /\ reg_ret.arg = Some(EMU)
    /\ reg_ret.value = None
    /\ adb = QuietBridge
    /\ reg_trace = <<"get_connected_devices">>
    /\ DictKeys(registered_devices) = {EMU}

\* the k-th property query failed
PropFailed(k) == getprop.props[k] \in {"raise", "nonzero"}

LastWasInfo == reg_ret.op = "get_device_info"

\* C11 (as claimed): in the descriptor get_device_info returns, each of the five
\* property keys is present, a property whose query failed (exception, timeout
\* or non-zero exit) reads "unknown", the others read what was queried, and a
\* failed screen-size query gives screen_size = "unknown".
C11_FailedQueryReadsUnknown ==
    LastWasInfo =>
        /\ ~reg_ret.raised
        /\ DictKeys(reg_ret.value.properties)
              = {PropertyNames[k] : k \in 1..Len(PropertyNames)}
        /\ \A k \in 1..Len(PropertyNames) :
              LET v == reg_ret.value.properties[DictGet(reg_ret.value.properties,
                                                        PropertyNames[k])][2] IN
              IF PropFailed(k) THEN v = "unknown" ELSE v = getprop.props[k]
        /\ getprop.size \in {"raise", "nonzero"} => reg_ret.value.screen_size = Some("unknown")

LastWasRegister == reg_ret.op = "register_with_gbox"

\* the record stored under an id
RecordOf(regs, id) == regs[DictGet(regs, id)][2]

\* C12: register_with_gbox returns null when the install check fails and then
\* leaves the registration map exactly as it was; it returns a session id only
\* when the install check succeeded, and then the map holds, under the device id,
\* a record with status "registered" and that session id, the records of the
\* other ids being as before.  Stated for every call the registry can get in a
\* reachable state, and for the call made last.
C12_RegisterAllOrNothing ==
    /\ \A id \in DeviceIds, a \in InstallAnswers, t1 \in RegClockValues, t2 \in RegClockValues :
          LET r == register_with_gbox(registered_devices, id, a, t1, t2) IN
          /\ ~r.raised
          /\ r.value # None <=> install_gbox_agent(a)
          /\ r.value = None => r.registered_devices = registered_devices
          /\ r.value # None =>
                /\ id \in DictKeys(r.registered_devices)
                /\ RecordOf(r.registered_devices, id).gbox_device_id = r.value[1]
                /\ RecordOf(r.registered_devices, id).status = "registered"
                /\ DictKeys(r.registered_devices) = DictKeys(registered_devices) \cup {id}
                /\ \A other \in DictKeys(registered_devices) \ {id} :
                      RecordOf(r.registered_devices, other) = RecordOf(registered_devices, other)
    /\ (LastWasRegister /\ reg_ret.value # None) =>
          /\ reg_ret.arg[1] \in DictKeys(registered_devices)
          /\ RecordOf(registered_devices, reg_ret.arg[1]).gbox_device_id = reg_ret.value[1]
          /\ RecordOf(registered_devices, reg_ret.arg[1]).status = "registered"

\* the emulator was registered, then a registration of it failed at the install
\* check: null was returned and the earlier record is still there
C12_Witness ==
    /\ LastWasRegister
    /\ reg_ret.arg = Some(EMU)
    /\ reg_ret.value = None
    /\ EMU \in DictKeys(registered_devices)
    /\ Some(RecordOf(registered_devices, EMU).gbox_device_id) = last_session[EMU]

----------------------------------------------------------------------------
(* Properties of the controller classes *)

\* the caller holds an object of a remote class
HoldsRemote == remote.variant \in RemoteVariants

\* the last step constructed a controller of a remote class
LastWasRemoteConstruct ==
    remote_ret.op = "construct" /\ remote_ret.arg[1] \in RemoteVariants

\* C13 (as claimed): every operation of the remote variants (click, type_text,
\* swipe, get_screen_text, take_screenshot, is_connected, get_device_info) raises
\* nothing, and returns its safe default when the handle raises or no handle is
\* bound.
C13_RemoteOpsNeverRaise ==
    (HoldsRemote /\ remote_ret.op \in RemoteMethods) =>
        /\ ~remote_ret.raised
        /\ (remote.device = None \/ remote_ret.backend = "raise")
              => remote_ret.value = SafeDefault(remote_ret.op)

\* C14 (as claimed): constructing a remote controller with no API key (none
\* passed, none in the environment) raises the configuration error for the
\* missing key; with a key and the SDK, construction returns a controller with
\* one device handle bound.
C14_MissingKeyIsConfigurationError ==
    LastWasRemoteConstruct =>
        LET key == remote_ret.arg[2]
            env_key == remote_ret.arg[3]
            sdk == remote_ret.arg[4]
        IN  /\ (key = None /\ env_key = None) =>
                  (remote_ret.raised /\ remote_ret.exc = Some("ValueError"))
            /\ ((key # None \/ env_key # None) /\ sdk) =>
                  (~remote_ret.raised /\ remote_ret.value[1].device = Handle)

\* C15 (as claimed): every controller class (Mock, cloud, local) defines the five
\* contract operations, so its construction raises nothing and a call of a
\* contract operation runs a method of the class.
C15_EveryVariantMeetsContract ==
    /\ remote_ret.op = "construct" =>
          /\ Contract \subseteq Methods(remote_ret.arg[1])
          /\ ~remote_ret.raised
    /\ (remote # NoRemote /\ remote_ret.op \in Contract) =>
          /\ remote_ret.op \in Methods(remote.variant)
          /\ ~remote_ret.raised

\* C16 (as claimed): the close operation exists on both remote variants and the
\* close call made on a controller raises nothing and leaves no session bound.
C16_CloseReleasesSession ==
    (HoldsRemote /\ remote_ret.op = "close_box") =>
        /\ HasAttr(remote.variant, "close_box")
        /\ ~remote_ret.raised
        /\ remote.device = None

\* C17: on a MockDeviceController, click, swipe, type_text and press_key return
\* true for all arguments, get_screen_info reports width 1080, height 2400 and
\* portrait, nothing is raised, and after any call the controller is the object
\* without fields it was when constructed.
C17_MockAlwaysSucceeds ==
    (remote.variant = "mock" /\ remote_ret.op \in Contract) =>
        /\ remote = MockObject
        /\ ~remote_ret.raised
        /\ remote_ret.op # "get_screen_info" => remote_ret.value = Some(TRUE)
        /\ remote_ret.op = "get_screen_info" =>
              /\ remote_ret.value[1].width = 1080
              /\ remote_ret.value[1].height = 2400
              /\ remote_ret.value[1].orientation = "portrait"

\* a click at the origin was made on a Mock and returned true
C17_Witness ==
    /\ remote = MockObject
    /\ remote_ret.op = "click"
    /\ remote_ret.arg = <<0, 0>>
    /\ remote_ret.value = Some(TRUE)

----------------------------------------------------------------------------
(* Properties of CustomAgent.get_status *)

\* C20: a get_status call reports tasks_executed equal to the length of the task
\* history, status "active" and device_connected true, whatever controller is
\* bound and whatever the history holds, and it changes neither the history nor
\* the agent id (which it reports).
C20_StatusReportsHistoryLength ==
    [][ret'.op = "get_status" =>
          /\ ret'.value[1].tasks_executed = Len(task_history)
          /\ ret'.value[1].status = "active"
          /\ ret'.value[1].device_connected = TRUE
          /\ ret'.value[1].agent_id = agent_id
          /\ task_history' = task_history
          /\ agent_id' = agent_id
          /\ device_controller' = device_controller]_vars

\* get_status was called on an agent with a custom controller and a history of
\* two entries, one of them failed
C20_Witness ==
    /\ ret.op = "get_status"
    /\ device_controller = "custom"
    /\ Len(task_history) = 2
    /\ ~task_history[1].success
    /\ ret.value[1].tasks_executed = 2

----------------------------------------------------------------------------
(* Properties of the integration layer *)

\* C18 (as claimed): a result appended to the history is never changed afterwards:
\* no step changes an entry the history already holds, and the entry a step appends
\* is the result as run_task returned it, with no field changed or added by the
\* benchmark runner's post-processing or by get_task_history.
C18_AppendedResultsNeverChange ==
    [][/\ \A i \in 1..Len(task_history) :
             /\ i <= Len(task_history')
             /\ task_history'[i] = task_history[i]
       /\ Len(task_history') > Len(task_history) =>
             task_history'[Len(task_history')] = ret'.value[1]]_vars

\* C19 (as claimed): when the registry returned a session id, setup_gbox_device
\* constructs a controller of the local class for an "emulator-" device id and of
\* the cloud class otherwise, with exactly that session id as its device id, binds
\* an agent holding it and reports success; when the registry returned null, no
\* controller and no agent is created and setup reports failure.
C19_ControllerBoundToSession ==
    integ_ret.op = "setup_gbox_device" =>
        IF integ_ret.session # None
        THEN /\ integ_ret.value = Some(TRUE)
             /\ integ.custom_agent = BoundAgent
             /\ integ_ret.ctor # None
             /\ integ_ret.ctor[1].variant =
                   (IF StartsWithEmulator(integ.device_id) THEN "local" ELSE "cloud")
             /\ integ_ret.ctor[1].device_id = integ_ret.session[1]
             /\ remote.variant = integ_ret.ctor[1].variant
        ELSE /\ integ_ret.value = Some(FALSE)
             /\ integ_ret.ctor = None
             /\ integ.custom_agent = None
             /\ remote = NoRemote

----------------------------------------------------------------------------
(* Properties of the agent's identifier *)

\* a CustomAgent is constructed while an earlier one of the process exists
SecondAgentStep ==
    /\ device_controller # NoAgent
    /\ ret'.op = "init"
    /\ <<agent_id, task_history, ret>> # <<agent_id', task_history', ret'>>

\* C21 (as claimed): an agent constructed after another one of the same process
\* has an agent_id different from the earlier one's, the same wall-clock second
\* included, and no other step changes the agent_id.
C21_AgentIdsDiffer ==
    [][/\ SecondAgentStep => agent_id' # agent_id
       /\ (device_controller # NoAgent /\ ret'.op # "init") => agent_id' = agent_id]_vars

----------------------------------------------------------------------------
(* Properties of the registry layer *)

RegistryLayerOps ==
    {"get_connected_devices", "get_device_info", "install_gbox_agent",
     "register_with_gbox", "get_registration_status", "setup_emulator_for_gbox",
     "get_available_devices"}

\* the bridge listed a row with a second tab
SecondTabListed ==
    /\ adb.status = "exit" /\ adb.returncode = 0
    /\ \E i \in 2..Len(adb.stdout) : Len(adb.stdout[i]) > 2

\* C22: no exception leaves the registry layer: whatever the bridge and the
\* device shell do (cannot start, time out, exit non-zero, list a row with a
\* second tab), each of the seven methods returns a value of its kind (a list, a
\* mapping, a boolean, a session id or null).
C22_NoExceptionEscapes ==
    reg_ret.op \in RegistryLayerOps =>
        /\ ~reg_ret.raised
        /\ reg_ret.op = "get_connected_devices" =>
              DOMAIN reg_ret.value = 1..Len(reg_ret.value)
        /\ reg_ret.op = "get_device_info" => reg_ret.value.id = reg_ret.arg[1]
        /\ reg_ret.op = "install_gbox_agent" => reg_ret.value \in BOOLEAN
        /\ reg_ret.op \in {"register_with_gbox", "setup_emulator_for_gbox"} =>
              (reg_ret.value = None \/ Len(reg_ret.value) = 1)
        /\ reg_ret.op = "get_registration_status" =>
              reg_ret.value.status \in {"registered", "not_registered"}
        /\ reg_ret.op = "get_available_devices" =>
              (reg_ret.value # None /\ DOMAIN reg_ret.value[1] = 1..Len(reg_ret.value[1]))

\* get_connected_devices met a row with a second tab and returned the empty list
C22_Witness ==
    /\ reg_ret.op = "get_connected_devices"
    /\ SecondTabListed
    /\ ~reg_ret.raised
    /\ reg_ret.value = <<>>

\* C25: get_registration_status(id) returns {status: not_registered} for an id
\* never registered successfully; for an id registered successfully it returns the
\* stored record, whose session id is the one the latest successful registration
\* of that id returned and whose status is "registered"; after the call the map
\* holds exactly the records of the successful registrations, as before it.
C25_StatusOfLatestRegistration ==
    reg_ret.op = "get_registration_status" =>
        LET id == reg_ret.arg[1] IN
        /\ DictKeys(registered_devices) = {d \in DeviceIds : last_session[d] # None}
        /\ \A d \in DictKeys(registered_devices) :
              RecordOf(registered_devices, d).gbox_device_id = last_session[d][1]
        /\ IF last_session[id] = None
           THEN reg_ret.value = NotRegistered
           ELSE /\ reg_ret.value = RecordOf(registered_devices, id)
                /\ reg_ret.value.gbox_device_id = last_session[id][1]
                /\ reg_ret.value.status = "registered"

\* the status of the emulator was asked for after a successful registration of it
\* and the stored record came back
C25_Witness ==
    /\ reg_ret.op = "get_registration_status"
    /\ last_session[EMU] # None
    /\ reg_ret.arg = Some(EMU)
    /\ reg_ret.value.status = "registered"
    /\ reg_ret.value.gbox_device_id = MakeGboxId(EMU, MaxRegTime)
    /\ reg_ret.value.registration_time = 0

----------------------------------------------------------------------------
(* Properties of the results of execute_task *)

\* C23 (as claimed): the execution_time of every result in the history is >= 0,
\* and the result of the last call has as execution_time the clock's second
\* reading minus its first, the first being the timestamp of the same result,
\* whatever the clock did between the two readings.
C23_ExecutionTimeNonNegative ==
    /\ \A i \in 1..Len(task_history) : task_history[i].execution_time >= 0
    /\ LastWasRun =>
          /\ Result.timestamp = last_run.readings[1]
          /\ Result.execution_time = last_run.readings[2] - Result.timestamp

----------------------------------------------------------------------------
(* Properties of the task handlers *)

\* the last call was execute_task on a recipe or calendar task
LastWasNamedExecute == ret.op = "execute_task" /\ ret.arg[1] \in NamedTasks

\* click(500, 1200), type_text(text), click(500, 1400)
ThreeSteps(task_name) ==
    <<Click(500, 1200),
      TypeText(IF task_name = "RecipeAddMultipleRecipes" THEN "Test Recipe" ELSE "Test Event"),
      Click(500, 1400)>>

\* no call of the handler's script raises
NoAnswerRaises == \A k \in 1..3 : last_run.answers[k] # "raise"

\* C24 (as claimed): the recipe and calendar handlers issue exactly three
\* controller calls, click(500, 1200), type_text("Test Recipe" / "Test Event"),
\* click(500, 1400), in this order, each once.
C24_ExactlyThreeCalls ==
    LastWasNamedExecute => last_run.calls = ThreeSteps(ret.arg[1])

\* C24 (amended): the handlers issue the three calls in this order, each once and
\* whatever the controller returns, as long as no call raises; when a call
\* raises, the handler ends there: the calls issued are the script up to and
\* including the raising call, none of them repeated.
C24_ThreeCallsUnlessOneRaises ==
    LastWasNamedExecute =>
        LET steps == ThreeSteps(ret.arg[1]) IN
        IF NoAnswerRaises
        THEN last_run.calls = steps /\ last_run.exc = None
        ELSE /\ last_run.exc # None
             /\ IsPrefix(last_run.calls, steps)
             /\ last_run.answers[Len(last_run.calls)] = "raise"
             /\ \A k \in 1..(Len(last_run.calls) - 1) : last_run.answers[k] # "raise"

\* the calendar handler issued its three calls although the first click
\* returned False
C24_Witness ==
    /\ LastWasNamedExecute
    /\ ret.arg = Some("SimpleCalendarAddOneEvent")
    /\ last_run.answers[1] = "false"
    /\ last_run.calls = ThreeSteps("SimpleCalendarAddOneEvent")

\* C28: when no controller call raises, execute_task reports success = true for
\* the recipe and calendar tasks whatever booleans the calls returned, and all
\* three steps are issued after an earlier step returned false.
C28_ReturnedBooleansIgnored ==
    (LastWasNamedExecute /\ NoAnswerRaises) =>
        /\ ret.value[1].success = TRUE
        /\ ret.value[1].error_message = None
        /\ Len(last_run.calls) = 3
        /\ task_history[Len(task_history)].success = TRUE

\* the recipe task was reported successful although every call returned False
C28_Witness ==
    /\ LastWasNamedExecute
    /\ ret.arg = Some("RecipeAddMultipleRecipes")
    /\ device_controller = "custom"
    /\ \A k \in 1..3 : last_run.answers[k] = "false"
    /\ Len(last_run.calls) = 3
    /\ ret.value[1].success = TRUE

\* C30: in every reachable state, every entry of the task history with a non-null
\* error_message has success = false; equivalently an entry with success = true
\* has error_message = null.
C30_ErrorMeansFailure ==
    \A i \in 1..Len(task_history) :
        /\ task_history[i].error_message # None => task_history[i].success = FALSE
        /\ task_history[i].success = TRUE => task_history[i].error_message = None

\* the history holds a failed entry with a message and a successful one without
C30_Witness ==
    /\ Len(task_history) = 2
    /\ task_history[1].error_message = Some("device error")
    /\ task_history[1].success = FALSE
    /\ task_history[2].success = TRUE
    /\ task_history[2].error_message = None

----------------------------------------------------------------------------
(* Properties of the device kind *)

\* the printed models that hold "sdk" or "emulator" in some case
EmulatorModels ==
    {<<"sdk", "_gphone64_x86_64">>, <<"Android ", "SDK", " built for x86">>, <<"Emulator">>}

\* C27: an id starting with "emulator-" is classified emulator without a query of
\* the model; otherwise the model is queried, a model holding "sdk" or "emulator"
\* in any case gives emulator, any other model read gives physical, and a query
\* that raises or exits non-zero gives unknown; the kind is always one of
\* emulator, physical, unknown.
C27_DeviceKind ==
    reg_ret.op = "get_device_type" =>
        LET id == reg_ret.arg[1]
            a == reg_ret.arg[2]
        IN  /\ reg_ret.value \in {"emulator", "physical", "unknown"}
            /\ ~reg_ret.raised
            /\ IF StartsWithEmulator(id)
               THEN reg_ret.value = "emulator" /\ reg_trace = <<>>
               ELSE /\ reg_trace = <<"getprop ro.product.model">>
                    /\ reg_ret.value =
                         (IF a.status = "raise" \/ a.returncode # 0 THEN "unknown"
                          ELSE IF a.stdout \in EmulatorModels THEN "emulator"
                          ELSE "physical")

\* a device whose id does not start with "emulator-" printed a model holding
\* "SDK" in capitals and was classified emulator
C27_Witness ==
    /\ reg_ret.op = "get_device_type"
    /\ reg_ret.arg[1] = PHY
    /\ reg_ret.arg[2].status = "exit" /\ reg_ret.arg[2].returncode = 0
    /\ reg_ret.arg[2].stdout = <<"Android ", "SDK", " built for x86">>
    /\ reg_ret.value = "emulator"

----------------------------------------------------------------------------
(* Properties of run_benchmark_task before setup *)

\* C29: a run_benchmark_task call made while the task registry is not loaded,
\* or while no agent is bound, or with a name the registry does not hold,
\* returns {success: false, error: ...} without a run of the agent: the history,
\* the agent's count of runs and the registrations are as before;
\* the registry is looked at before the agent.
C29_RefusesBeforeSetup ==
    [][integ_ret'.op = "run_benchmark_task" =>
        LET in_registry == integ_ret'.arg[2] IN
        (~integ.task_registry \/ integ.custom_agent = None \/ ~in_registry) =>
            /\ integ_ret'.value =
                 Some(ErrorDict(IF ~integ.task_registry THEN "AndroidWorld not initialized"
                                ELSE IF integ.custom_agent = None THEN "GBOX device not set up"
                                ELSE "Task not found"))
            /\ task_history' = task_history
            /\ n_calls' = n_calls
            /\ registered_devices' = registered_devices
            /\ last_session' = last_session]_vars

\* run_benchmark_task was called with neither a task registry nor an agent and
\* answered that AndroidWorld is not initialized
C29_Witness ==
    /\ integ_ret.op = "run_benchmark_task"
    /\ ~integ.task_registry
    /\ integ.custom_agent = None
    /\ integ_ret.value = Some(ErrorDict("AndroidWorld not initialized"))
    /\ task_history = <<>>

----------------------------------------------------------------------------
(* Properties of run_multiple_tasks *)

\* the result is one the agent returned (not an error dict of the integration)
OfAgent(result) == "task_name" \in DOMAIN result

\* C26: run_multiple_tasks runs the first max_tasks names in list order, one
\* after the other: results has min(len(task_names), max_tasks) items, the i-th
\* being the result for task_names[i], and the agent's history ends with the
\* agent's results in that order; total_tasks is that length, successful_tasks
\* the number of results whose success is true, between 0 and total_tasks, and
\* success_rate is 0 when nothing was run.
C26_BatchInListOrder ==
    integ_ret.op = "run_multiple_tasks" =>
        LET task_names == integ_ret.arg[1]
            max_tasks == integ_ret.arg[2]
            v == integ_ret.value[1]
            n == IF Len(task_names) < max_tasks THEN Len(task_names) ELSE max_tasks
            done == SelectSeq(v.results, OfAgent)
            h == Len(task_history)
        IN  /\ Len(v.results) = n
            /\ v.total_tasks = n
            /\ \A k \in 1..n : OfAgent(v.results[k]) => v.results[k].task_name = task_names[k]
            /\ Len(done) <= h
            /\ SubSeq(task_history, h - Len(done) + 1, h) = done
            /\ v.successful_tasks = Cardinality({k \in 1..n : v.results[k].success})
            /\ 0 <= v.successful_tasks /\ v.successful_tasks <= v.total_tasks
            /\ n = 0 => v.success_rate = ZeroRate

\* three names were given with max_tasks 2: the first two ran, in order, the
\* first failing and the second succeeding, and the third was not run
C26_Witness ==
    /\ integ_ret.op = "run_multiple_tasks"
    /\ integ_ret.arg = <<<<"SimpleCalendarAddOneEvent", "RecipeAddMultipleRecipes",
                           "SimpleCalendarAddOneEvent">>, 2>>
    /\ Len(integ_ret.value[1].results) = 2
    /\ OfAgent(integ_ret.value[1].results[1]) /\ ~integ_ret.value[1].results[1].success
    /\ OfAgent(integ_ret.value[1].results[2]) /\ integ_ret.value[1].results[2].success
    /\ integ_ret.value[1].successful_tasks = 1
    /\ Len(task_history) = 2

====
